---------------------------- MODULE Spec2Model ----------------------------
(***************************************************************************)
(* A model of the tree-walking interpreter front end: the lexer            *)
(* (src/src/lexer.rs), the expression parser (src/src/parser.rs), the      *)
(* scope chain (src/src/environment.rs) and the statement interpreter      *)
(* (src/src/interpreter.rs) driven by the `run` command (src/src/main.rs). *)
(*                                                                         *)
(* Text is a sequence of one-character strings.  Rust indices are kept     *)
(* 0-based (current, start); source[i] of the Rust code is source[i + 1]   *)
(* here.  A 64-bit float is an extended rational [p, q]: q > 0 is the      *)
(* finite value p/q in lowest terms, q = 0 is +inf (p = 1), -inf (p = -1)  *)
(* or NaN (p = 0); rounding and the sign of zero are not modelled.         *)
(***************************************************************************)
EXTENDS Integers, Sequences, FiniteSets, TLC

VARIABLES
    lexer,         \* the Lexer struct, plus the lines eprintln! wrote (stderr)
    lexpc,         \* position in Lexer::scan_tokens: "scan" | "done"
    environment,   \* Interpreter.environment
    stdout,        \* the lines println! wrote
    run_stderr,    \* the lines main's eprintln! wrote
    frames,        \* the statement loops in progress, innermost first
    statement,     \* the statement of the call of run that returned last
    result,        \* the Result that call returned
    budget,        \* statements the program may still hold in new blocks
    exit_code,     \* the process exit code, once runpc = "exited"
    runpc,         \* position in main's `run` command: "run" | "exited"
    parser,        \* the Parser struct of the `evaluate` command
    parse_result,        \* the Result that Parser::parse returned
    statements,    \* the statements of the `run` command still to be run
    cmdpc          \* position in main's `evaluate` or `run` command:
                   \*   "lex" | "parse" | "evaluate" | "run" | "exited"

lexvars == <<lexer, lexpc>>

runvars ==
    <<environment, stdout, run_stderr, frames, result, statement, budget,
      exit_code, runpc>>

parsevars == <<parser, parse_result, statements, cmdpc>>

vars == <<lexvars, runvars, parsevars>>

(***************************************************************************)
(* Bounds of the model.                                                    *)
(***************************************************************************)
MaxSrcLen == 4

LexAlphabet == {"\"", "/", "\n", "@", "=", "1", ".", "o", "r", " "}

(***************************************************************************)
(* Characters and text.                                                    *)
(***************************************************************************)
NUL == "NUL"      \* the '\0' that peek and peek_next return at end of input

None == <<NUL>>   \* Option::None of a token's literal

Digits == {"0", "1", "2", "3", "4", "5", "6", "7", "8", "9"}

Letters ==
    {"a", "b", "c", "d", "e", "f", "g", "h", "i", "j", "k", "l", "m",
     "n", "o", "p", "q", "r", "s", "t", "u", "v", "w", "x", "y", "z",
     "A", "B", "C", "D", "E", "F", "G", "H", "I", "J", "K", "L", "M",
     "N", "O", "P", "Q", "R", "S", "T", "U", "V", "W", "X", "Y", "Z"}

RECURSIVE Str(_)
Str(cs) == IF cs = <<>> THEN "" ELSE Head(cs) \o Str(Tail(cs))

DigitVal(c) ==
    CASE c = "0" -> 0 [] c = "1" -> 1 [] c = "2" -> 2 [] c = "3" -> 3
      [] c = "4" -> 4 [] c = "5" -> 5 [] c = "6" -> 6 [] c = "7" -> 7
      [] c = "8" -> 8 [] c = "9" -> 9

DigitChar(d) == <<"0", "1", "2", "3", "4", "5", "6", "7", "8", "9">>[d + 1]

RECURSIVE DigitsVal(_)
DigitsVal(cs) ==
    IF cs = <<>> THEN 0
    ELSE DigitsVal(SubSeq(cs, 1, Len(cs) - 1)) * 10 + DigitVal(cs[Len(cs)])

RECURSIVE NatChars(_)
NatChars(n) ==
    IF n < 10 THEN <<DigitChar(n)>>
    ELSE Append(NatChars(n \div 10), DigitChar(n % 10))

IntChars(n) == IF n < 0 THEN <<"-">> \o NatChars(-n) ELSE NatChars(n)

RECURSIVE Pow10(_)
Pow10(k) == IF k = 0 THEN 1 ELSE 10 * Pow10(k - 1)

(***************************************************************************)
(* f64 as an extended rational.                                            *)
(***************************************************************************)
Abs(n) == IF n < 0 THEN -n ELSE n

Sign(n) == IF n < 0 THEN -1 ELSE IF n > 0 THEN 1 ELSE 0

RECURSIVE Gcd(_, _)
Gcd(a, b) == IF b = 0 THEN a ELSE Gcd(b, a % b)

Rat(p, q) ==
    IF q = 0 THEN [p |-> Sign(p), q |-> 0]
    ELSE LET g == Gcd(Abs(p), Abs(q))
             s == IF q < 0 THEN -1 ELSE 1
         IN  [p |-> (s * p) \div g, q |-> (s * q) \div g]

IsNaN(x) == x.q = 0 /\ x.p = 0

Fract0(x) == x.q = 1           \* number.fract() == 0.0 (false for inf, NaN)

\* str::parse::<f64> on the texts that occur: digits, optionally '.' digits
DotPos(cs) ==
    IF \E i \in 1..Len(cs) : cs[i] = "."
    THEN CHOOSE i \in 1..Len(cs) : cs[i] = "." /\ \A j \in 1..(i - 1) : cs[j] # "."
    ELSE 0

ParseF64(cs) ==
    LET d    == DotPos(cs)
        ip   == IF d = 0 THEN cs ELSE SubSeq(cs, 1, d - 1)
        fp   == IF d = 0 THEN <<>> ELSE SubSeq(cs, d + 1, Len(cs))
        good == /\ \A i \in 1..Len(ip) : ip[i] \in Digits
                /\ \A i \in 1..Len(fp) : fp[i] \in Digits
                /\ Len(ip) + Len(fp) > 0
    IN  IF good
        THEN [ok |-> TRUE, n |-> Rat(DigitsVal(ip \o fp), Pow10(Len(fp)))]
        ELSE [ok |-> FALSE, n |-> Rat(0, 0)]

\* the decimal digits of r / q, for 0 <= r < q, while they last (at most k)
RECURSIVE FracChars(_, _, _)
FracChars(r, q, k) ==
    IF r = 0 \/ k = 0 THEN <<>>
    ELSE <<DigitChar((r * 10) \div q)>> \o FracChars((r * 10) % q, q, k - 1)

FloatDigits == 17     \* digits f64's Display can need

\* f64's Display (to_string)
F64ToChars(x) ==
    IF x.q = 0
    THEN (IF x.p = 0 THEN <<"N", "a", "N">>
          ELSE IF x.p > 0 THEN <<"i", "n", "f">> ELSE <<"-", "i", "n", "f">>)
    ELSE LET a == Abs(x.p)
             i == (IF x.p < 0 THEN <<"-">> ELSE <<>>) \o NatChars(a \div x.q)
         IN  IF x.q = 1 THEN i
             ELSE i \o <<".">> \o FracChars(a % x.q, x.q, FloatDigits)

(***************************************************************************)
(* Tokens (src/src/token.rs).                                              *)
(***************************************************************************)
KEYWORDS ==
    [k \in {"class", "var", "super", "print", "return", "this", "and", "or",
            "if", "else", "true", "false", "while", "for", "fun", "nil"} |->
        CASE k = "class" -> "CLASS" [] k = "var" -> "VAR"
          [] k = "super" -> "SUPER" [] k = "print" -> "PRINT"
          [] k = "return" -> "RETURN" [] k = "this" -> "THIS"
          [] k = "and" -> "AND" [] k = "or" -> "OR" [] k = "if" -> "IF"
          [] k = "else" -> "ELSE" [] k = "true" -> "TRUE"
          [] k = "false" -> "FALSE" [] k = "while" -> "WHILE"
          [] k = "for" -> "FOR" [] k = "fun" -> "FUN" [] k = "nil" -> "NIL"]

Token(type, lexeme, literal, line) ==
    [token_type |-> type, lexeme |-> lexeme, literal |-> literal, line |-> line]

(***************************************************************************)
(* The lexer (src/src/lexer.rs).  Every operator takes the Lexer L and     *)
(* yields the Lexer after the call.                                        *)
(***************************************************************************)
LexerNew(source) ==
    [source |-> source, tokens |-> <<>>, current |-> 0, start |-> 0,
     line |-> 1, had_error |-> FALSE, stderr |-> <<>>]

is_at_end(L) == L.current >= Len(L.source)

peek(L) == IF is_at_end(L) THEN NUL ELSE L.source[L.current + 1]

peek_next(L) ==
    IF L.current + 1 >= Len(L.source) THEN NUL ELSE L.source[L.current + 2]

advance(L) == [L EXCEPT !.current = @ + 1]

\* match_char: the Lexer after the call; it moved iff the character matched
match_char(L, expected) ==
    IF is_at_end(L) \/ L.source[L.current + 1] # expected THEN L
    ELSE [L EXCEPT !.current = @ + 1]

is_digit(c) == c \in Digits

is_alpha(c) == c \in Letters \/ c = "_"

is_alpha_numeric(c) == c \in Letters \/ c \in Digits \/ c = "_"

get_lexeme(L) == SubSeq(L.source, L.start + 1, L.current)

add_token(L, type, literal) ==
    [L EXCEPT !.tokens = Append(@, Token(type, get_lexeme(L), literal, L.line))]

eof_token_unless_error(L) ==
    IF L.had_error THEN L
    ELSE [L EXCEPT !.tokens = Append(@, Token("EOF", <<>>, None, L.line))]

eof_token(L) ==
    [L EXCEPT !.tokens = Append(@, Token("EOF", <<>>, None, L.line))]

report(L, line, where_msg, message) ==
    [L EXCEPT !.stderr = Append(@, [line |-> line, where_msg |-> where_msg,
                                    message |-> message]),
              !.had_error = TRUE]

lex_error(L, line, message) == report(L, line, "", message)

format_number(number) ==
    IF Fract0(number) THEN IntChars(number.p) \o <<".", "0">>
    ELSE F64ToChars(number)

RECURSIVE skip_comment(_)
skip_comment_passes_end(L) ==
    IF peek(L) # "\n" /\ L.current <= Len(L.source)
    THEN skip_comment(advance(L)) ELSE L

skip_comment(L) ==
    IF peek(L) # "\n" /\ ~is_at_end(L) THEN skip_comment(advance(L)) ELSE L

scan_slash(L) ==
    LET M == match_char(L, "/")
    IN  IF M.current # L.current THEN skip_comment(M)
        ELSE add_token(M, "SLASH", None)

scan_comparison(L, single, double) ==
    LET M == match_char(L, "=")
    IN  add_token(M, IF M.current # L.current THEN double ELSE single, None)

RECURSIVE string_body(_)
string_body(L) ==
    IF peek(L) # "\"" /\ ~is_at_end(L)
    THEN string_body(advance(IF peek(L) = "\n"
                             THEN [L EXCEPT !.line = @ + 1] ELSE L))
    ELSE L

string_reports_opening_line(L) ==
    LET M == string_body(L)
    IN  IF is_at_end(M) THEN lex_error(M, L.line, "Unterminated string.")
        ELSE LET N == advance(M)
             IN  add_token(N, "STRING",
                           SubSeq(N.source, N.start + 2, N.current - 1))

string(L) ==
    LET M == string_body(L)
    IN  IF is_at_end(M) THEN lex_error(M, M.line, "Unterminated string.")
        ELSE LET N == advance(M)
             IN  add_token(N, "STRING",
                           SubSeq(N.source, N.start + 2, N.current - 1))

RECURSIVE consume_digits(_)
consume_digits(L) ==
    IF is_digit(peek(L)) THEN consume_digits(advance(L)) ELSE L

number(L) ==
    LET M == consume_digits(L)
        N == IF peek(M) = "." /\ is_digit(peek_next(M))
             THEN consume_digits(advance(M)) ELSE M
        value == get_lexeme(N)
        parsed == ParseF64(value)
    IN  IF parsed.ok THEN add_token(N, "NUMBER", format_number(parsed.n))
        ELSE lex_error(N, N.line, "Invalid number: " \o Str(value))

RECURSIVE identifier_body(_)
identifier_body(L) ==
    IF is_alpha_numeric(peek(L)) THEN identifier_body(advance(L)) ELSE L

identifier(L) ==
    LET M == identifier_body(L)
        text == Str(get_lexeme(M))
    IN  add_token(M, IF text \in DOMAIN KEYWORDS THEN KEYWORDS[text]
                     ELSE "IDENTIFIER", None)

unexpected_character_aborts(L, c) ==
    [lex_error(L, L.line, "Unexpected character: " \o c)
        EXCEPT !.current = Len(L.source)]

\* the `_ =>` arm of scan_token
unexpected_character(L, c) ==
    lex_error(L, L.line, "Unexpected character: " \o c)

scan_token(L0) ==
    LET c == L0.source[L0.current + 1]
        L == advance(L0)
    IN  CASE c = "(" -> add_token(L, "LEFT_PAREN", None)
          [] c = ")" -> add_token(L, "RIGHT_PAREN", None)
          [] c = "{" -> add_token(L, "LEFT_BRACE", None)
          [] c = "}" -> add_token(L, "RIGHT_BRACE", None)
          [] c = "," -> add_token(L, "COMMA", None)
          [] c = "." -> add_token(L, "DOT", None)
          [] c = ";" -> add_token(L, "SEMICOLON", None)
          [] c = "-" -> add_token(L, "MINUS", None)
          [] c = "+" -> add_token(L, "PLUS", None)
          [] c = "*" -> add_token(L, "STAR", None)
          [] c = "/" -> scan_slash(L)
          [] c = ">" -> scan_comparison(L, "GREATER", "GREATER_EQUAL")
          [] c = "<" -> scan_comparison(L, "LESS", "LESS_EQUAL")
          [] c = "=" -> scan_comparison(L, "EQUAL", "EQUAL_EQUAL")
          [] c = "!" -> scan_comparison(L, "BANG", "BANG_EQUAL")
          [] c = "\"" -> string(L)
          [] is_digit(c) -> number(L)
          [] is_alpha(c) -> identifier(L)
          [] c \in {" ", "\r", "\t"} -> L
          [] c = "\n" -> [L EXCEPT !.line = @ + 1]
          [] OTHER -> unexpected_character(L, c)

\* Lexer::scan_tokens run to completion (the loop, then eof_token)
RECURSIVE scan_loop(_)
scan_loop(L) ==
    IF ~is_at_end(L) THEN scan_loop(scan_token([L EXCEPT !.start = L.current]))
    ELSE L

scan_tokens(source) == eof_token(scan_loop(LexerNew(source))).tokens

(***************************************************************************)
(* Lexer::scan_tokens as a state machine: one step per loop iteration.     *)
(***************************************************************************)
Sources == UNION {[1..n -> LexAlphabet] : n \in 0..MaxSrcLen}

LexInit ==
    /\ \E source \in Sources : lexer = LexerNew(source)
    /\ lexpc = "scan"

ScanStep ==
    /\ lexpc = "scan"
    /\ ~is_at_end(lexer)
    /\ lexer' = scan_token([lexer EXCEPT !.start = lexer.current])
    /\ UNCHANGED <<lexpc, runvars, parsevars>>

ScanEof ==
    /\ lexpc = "scan"
    /\ is_at_end(lexer)
    /\ lexer' = eof_token(lexer)
    /\ lexpc' = "done"
    /\ UNCHANGED <<runvars, parsevars>>

LexNext == ScanStep \/ ScanEof

(***************************************************************************)
(* What the source text says, read off the text alone: the region each     *)
(* character lies in.  ModeAfter(src, i) is the region after the first i   *)
(* characters: "code", "str" (inside a string literal) or "cmt" (inside a  *)
(* // comment).                                                            *)
(***************************************************************************)
RECURSIVE ModeAfter(_, _)
ModeAfter(src, i) ==
    IF i = 0 THEN "code"
    ELSE LET m == ModeAfter(src, i - 1)
             c == src[i]
         IN  CASE m = "str" -> IF c = "\"" THEN "code" ELSE "str"
               [] m = "cmt" ->
                    IF i < Len(src) /\ src[i + 1] = "\n" THEN "code" ELSE "cmt"
               [] OTHER ->
                    IF c = "\"" THEN "str"
                    ELSE IF c = "/" /\ i < Len(src) /\ src[i + 1] = "/"
                         THEN "cmt" ELSE "code"

Recognised ==
    {"(", ")", "{", "}", ",", ".", ";", "-", "+", "*", "/", ">", "<", "=",
     "!", "\"", "_", " ", "\r", "\t", "\n"} \cup Digits \cup Letters

\* the characters that start no token and are no white space, outside
\* strings and comments
BadPositions(src) ==
    {i \in 1..Len(src) : src[i] \notin Recognised /\ ModeAfter(src, i - 1) = "code"}

NewlinesBefore(src, i) == Cardinality({j \in 1..(i - 1) : src[j] = "\n"})

Blanked(src) ==
    [i \in 1..Len(src) |-> IF i \in BadPositions(src) THEN " " ELSE src[i]]

RECURSIVE UnexpectedUpTo(_, _)
UnexpectedUpTo(src, i) ==
    IF i = 0 THEN <<>>
    ELSE UnexpectedUpTo(src, i - 1) \o
         (IF i \in BadPositions(src)
          THEN <<[line |-> 1 + NewlinesBefore(src, i), where_msg |-> "",
                  message |-> "Unexpected character: " \o src[i]]>>
          ELSE <<>>)

IsUnterminated(e) == e.message = "Unterminated string."

IsNotUnterminated(e) == ~IsUnterminated(e)

IsEof(t) == t.token_type = "EOF"

IsString(t) == t.token_type = "STRING"

ClosingQuotes(src) ==
    {i \in 1..Len(src) : src[i] = "\"" /\ ModeAfter(src, i - 1) = "str"}

(***************************************************************************)
(* C1.  For every source text, with or without lexical errors, the tokens  *)
(* scan_tokens returns hold exactly one EOF token, it is the last one, and *)
(* its line is the line counter's final value, which is 1 plus the number  *)
(* of newline characters of the source.  No EOF token exists before the    *)
(* scan has ended.                                                         *)
(***************************************************************************)
C1_ExactlyOneEofLast ==
    /\ lexpc = "scan" => SelectSeq(lexer.tokens, IsEof) = <<>>
    /\ lexpc = "done" =>
          /\ Len(SelectSeq(lexer.tokens, IsEof)) = 1
          /\ lexer.tokens[Len(lexer.tokens)].token_type = "EOF"
          /\ lexer.tokens[Len(lexer.tokens)].line = lexer.line
          /\ lexer.line = 1 + NewlinesBefore(lexer.source, Len(lexer.source) + 1)

C1_Witness ==
    /\ lexpc = "done"
    /\ lexer.had_error
    /\ lexer.line = 3
    /\ Len(lexer.tokens) >= 2

(***************************************************************************)
(* C2.  Each character that starts no token, met outside a string and a    *)
(* comment, yields exactly one error "Unexpected character: <c>" at the    *)
(* line it stands on, in source order, and no token; the scan goes on: the *)
(* tokens returned are those of the same text with these characters        *)
(* replaced by spaces.                                                     *)
(***************************************************************************)
C2_UnexpectedCharacterRecordedAndSkipped ==
    lexpc = "done" =>
        /\ SelectSeq(lexer.stderr, IsNotUnterminated)
              = UnexpectedUpTo(lexer.source, Len(lexer.source))
        /\ lexer.tokens = scan_tokens(Blanked(lexer.source))
        /\ BadPositions(lexer.source) # {} => lexer.had_error

C2_Witness ==
    /\ lexpc = "done"
    /\ Cardinality(BadPositions(lexer.source)) = 2
    /\ 1 \in BadPositions(lexer.source)
    /\ Len(SelectSeq(lexer.stderr, IsNotUnterminated)) = 2
    /\ Len(lexer.tokens) = 3

(***************************************************************************)
(* C3.  A string literal whose opening quote has no closing quote before   *)
(* the end of input yields exactly one error "Unterminated string.", the   *)
(* last error reported, at the line the counter holds at the end of input  *)
(* (newlines inside the string counted); no STRING token is produced for   *)
(* it (STRING tokens are exactly the closed literals) and the EOF token is *)
(* still returned.  A text with no unterminated string yields no such      *)
(* error.                                                                  *)
(***************************************************************************)
C3_UnterminatedString ==
    lexpc = "done" =>
        LET src == lexer.source
            open == ModeAfter(src, Len(src)) = "str"
            errs == SelectSeq(lexer.stderr, IsUnterminated)
        IN  /\ Len(errs) = (IF open THEN 1 ELSE 0)
            /\ open =>
                  /\ IsUnterminated(lexer.stderr[Len(lexer.stderr)])
                  /\ lexer.stderr[Len(lexer.stderr)].line
                        = 1 + NewlinesBefore(src, Len(src) + 1)
                  /\ lexer.had_error
            /\ Len(SelectSeq(lexer.tokens, IsString))
                  = Cardinality(ClosingQuotes(src))
            /\ lexer.tokens[Len(lexer.tokens)].token_type = "EOF"

C3_Witness ==
    /\ lexpc = "done"
    /\ lexer.source = <<"\"", "\"", "\"", "\n">>
    /\ ModeAfter(lexer.source, Len(lexer.source)) = "str"
    /\ lexer.stderr[Len(lexer.stderr)].line = 2
    /\ Len(lexer.tokens) = 2

(***************************************************************************)
(* Runtime values (src/src/ast.rs, LiteralValue).                          *)
(***************************************************************************)
Number(n) == [t |-> "Number", n |-> n]

StringV(s) == [t |-> "String", s |-> s]

Boolean(b) == [t |-> "Boolean", b |-> b]

Nil == [t |-> "Nil"]

IntNum(i) == Rat(i, 1)

NaN == Rat(0, 0)

NumNeg(a) == [p |-> -a.p, q |-> a.q]

NumAdd(a, b) ==
    IF a.q = 0 /\ b.q = 0 THEN (IF a.p = b.p THEN a ELSE NaN)
    ELSE Rat(a.p * b.q + b.p * a.q, a.q * b.q)

NumSub(a, b) == NumAdd(a, NumNeg(b))

NumMul(a, b) == Rat(a.p * b.p, a.q * b.q)

NumDiv(a, b) ==
    Rat((IF b.p < 0 THEN -1 ELSE 1) * a.p * b.q, a.q * Abs(b.p))

NumRank(a) == IF a.q = 0 THEN a.p ELSE 0

NumLess(a, b) ==
    /\ ~IsNaN(a)
    /\ ~IsNaN(b)
    /\ IF a.q = 0 \/ b.q = 0 THEN NumRank(a) < NumRank(b)
       ELSE a.p * b.q < b.p * a.q

NumEq(a, b) == ~IsNaN(a) /\ ~IsNaN(b) /\ a = b

\* LiteralValue::as_string
as_string(v) ==
    CASE v.t = "Number" ->
            IF Fract0(v.n) THEN IntChars(v.n.p) ELSE F64ToChars(v.n)
      [] v.t = "String" -> v.s
      [] v.t = "Boolean" ->
            IF v.b THEN <<"t", "r", "u", "e">> ELSE <<"f", "a", "l", "s", "e">>
      [] v.t = "Nil" -> <<"n", "i", "l">>

(***************************************************************************)
(* Expressions and statements (src/src/ast.rs).                            *)
(***************************************************************************)
Literal(v) == [node |-> "Literal", value |-> v]

Grouping(e) == [node |-> "Grouping", inner |-> e]

Unary(op, r) == [node |-> "Unary", operator |-> op, right |-> r]

Binary(l, op, r) == [node |-> "Binary", left |-> l, operator |-> op, right |-> r]

Logical(l, op, r) == [node |-> "Logical", left |-> l, operator |-> op, right |-> r]

Variable(name) == [node |-> "Variable", name |-> name]

Assignment(name, v) == [node |-> "Assignment", name |-> name, value |-> v]

NoExpr == [node |-> "None"]      \* Option::None of an initializer

PrintStmt(e) == [stmt |-> "Print", expr |-> e]

ExpressionStmt(e) == [stmt |-> "Expression", expr |-> e]

VarStmt(name, init) == [stmt |-> "Var", name |-> name, initializer |-> init]

(***************************************************************************)
(* The scope chain (src/src/environment.rs).  An Environment is the        *)
(* sequence of its scopes, innermost first: the head is `values`, the tail *)
(* is `enclosing`.  A scope maps every name to its value or to Absent (the *)
(* HashMap holds no such key).                                             *)
(***************************************************************************)
Names == {"x", "y"}

Absent == [t |-> "Absent"]

EmptyScope == [n \in Names |-> Absent]

EnvironmentNew == <<EmptyScope>>

with_enclosing(enclosing) == <<EmptyScope>> \o enclosing

into_enclosing(env) == Tail(env)

define_in_enclosing(env, name, value) ==
    IF Len(env) > 1 /\ env[2][name] # Absent
    THEN [env EXCEPT ![2][name] = value]
    ELSE [env EXCEPT ![1][name] = value]

define(env, name, value) == [env EXCEPT ![1][name] = value]

RECURSIVE get_outermost(_, _)
get_outermost(env, name) ==
    IF env = <<>> THEN Absent
    ELSE LET outer == get_outermost(Tail(env), name)
         IN  IF outer # Absent THEN outer ELSE env[1][name]

\* HashMap::get on one scope: a name that was never a key is Absent
Lookup(scope, name) == IF name \in DOMAIN scope THEN scope[name] ELSE Absent

\* Option<LiteralValue>: Absent is None
RECURSIVE get(_, _)
get(env, name) ==
    IF Lookup(env[1], name) # Absent THEN env[1][name]
    ELSE IF Len(env) = 1 THEN Absent
    ELSE get(Tail(env), name)

RuntimeError(line, message) == [line |-> line, message |-> message]

NoError == [line |-> 0, message |-> ""]

assign_or_define(env, name, value) ==
    IF \E i \in 1..Len(env) : env[i][name] # Absent
    THEN LET k == CHOOSE i \in 1..Len(env) :
                      /\ env[i][name] # Absent
                      /\ \A j \in 1..(i - 1) : env[j][name] = Absent
         IN  [ok |-> TRUE, env |-> [env EXCEPT ![k][name] = value],
              error |-> NoError]
    ELSE [ok |-> TRUE, env |-> [env EXCEPT ![Len(env)][name] = value],
          error |-> NoError]

\* Result<(), RuntimeError>, with the chain as the call leaves it
RECURSIVE assign(_, _, _)
assign(env, name, value) ==
    IF Lookup(env[1], name) # Absent
    THEN [ok |-> TRUE, env |-> [env EXCEPT ![1][name] = value], error |-> NoError]
    ELSE IF Len(env) > 1
    THEN LET r == assign(Tail(env), name, value)
         IN  [r EXCEPT !.env = <<env[1]>> \o r.env]
    ELSE [ok |-> FALSE, env |-> env,
          error |-> RuntimeError(0, "Undefined variable '" \o name \o "'")]

(***************************************************************************)
(* Expression evaluation (src/src/interpreter.rs).  evaluate yields        *)
(* Result<LiteralValue, RuntimeError> and the environment as the call      *)
(* leaves it: an assignment made before a later operand fails stays made.  *)
(***************************************************************************)
Ok(value, env) == [ok |-> TRUE, value |-> value, env |-> env, error |-> NoError]

Err(error, env) == [ok |-> FALSE, value |-> Nil, env |-> env, error |-> error]

is_truthy(value) == ~(value.t = "Nil" \/ (value.t = "Boolean" /\ ~value.b))

is_equal(left, right) ==
    CASE left.t = "Number" /\ right.t = "Number" -> NumEq(left.n, right.n)
      [] left.t = "Nil" /\ right.t = "Nil" -> TRUE
      [] left.t = "Boolean" /\ right.t = "Boolean" -> left.b = right.b
      [] left.t = "String" /\ right.t = "String" -> left.s = right.s
      [] OTHER -> FALSE

interp_error(operator, message) == RuntimeError(operator.line, message)

plus_op_appends_left(operator, left, right, env) ==
    IF left.t = "Number" /\ right.t = "Number"
    THEN Ok(Number(NumAdd(left.n, right.n)), env)
    ELSE IF left.t = "String" /\ right.t = "String"
    THEN Ok(StringV(right.s \o left.s), env)
    ELSE Err(interp_error(operator,
                 "Operands must be two numbers or two strings."), env)

\* the arm TokenType::PLUS: `match (&left, &right)`
plus_op(operator, left, right, env) ==
    IF left.t = "Number" /\ right.t = "Number"
    THEN Ok(Number(NumAdd(left.n, right.n)), env)
    ELSE IF left.t = "String" /\ right.t = "String"
    THEN Ok(StringV(left.s \o right.s), env)
    ELSE Err(interp_error(operator,
                 "Operands must be two numbers or two strings."), env)

\* the arms of `match operator.token_type` for a Binary node
binary_op(operator, left, right, env) ==
    LET both == left.t = "Number" /\ right.t = "Number"
        nan  == Err(interp_error(operator, "Operands must be numbers."), env)
        ty   == operator.token_type
    IN  CASE ty = "PLUS" -> plus_op(operator, left, right, env)
          [] ty = "MINUS" ->
               IF both THEN Ok(Number(NumSub(left.n, right.n)), env) ELSE nan
          [] ty = "STAR" ->
               IF both THEN Ok(Number(NumMul(left.n, right.n)), env) ELSE nan
          [] ty = "SLASH" ->
               IF both THEN Ok(Number(NumDiv(left.n, right.n)), env) ELSE nan
          [] ty = "GREATER" ->
               IF both THEN Ok(Boolean(NumLess(right.n, left.n)), env) ELSE nan
          [] ty = "GREATER_EQUAL" ->
               IF both THEN Ok(Boolean(NumLess(right.n, left.n)
                                       \/ NumEq(left.n, right.n)), env)
               ELSE nan
          [] ty = "LESS" ->
               IF both THEN Ok(Boolean(NumLess(left.n, right.n)), env) ELSE nan
          [] ty = "LESS_EQUAL" ->
               IF both THEN Ok(Boolean(NumLess(left.n, right.n)
                                       \/ NumEq(left.n, right.n)), env)
               ELSE nan
          [] ty = "EQUAL_EQUAL" -> Ok(Boolean(is_equal(left, right)), env)
          [] ty = "BANG_EQUAL" -> Ok(Boolean(~is_equal(left, right)), env)

\* the arms of `match operator.token_type` for a Unary node
unary_op(operator, right, env) ==
    CASE operator.token_type = "MINUS" ->
            IF right.t = "Number" THEN Ok(Number(NumNeg(right.n)), env)
            ELSE Err(interp_error(operator, "Operand must be a number."), env)
      [] operator.token_type = "BANG" -> Ok(Boolean(~is_truthy(right)), env)

RECURSIVE evaluate(_, _)
RECURSIVE evaluate_logical(_, _)

evaluate_logical_eager(expr, env) ==
    LET left == evaluate(expr.left, env)
    IN  IF ~left.ok THEN left
        ELSE LET right == evaluate(expr.right, left.env)
             IN  IF ~right.ok THEN right
                 ELSE IF expr.operator.token_type = "OR"
                 THEN (IF is_truthy(left.value) THEN Ok(left.value, right.env)
                       ELSE right)
                 ELSE (IF ~is_truthy(left.value) THEN Ok(left.value, right.env)
                       ELSE right)

\* Expr::Logical: interpreter.rs has no arm for it; this is the rule of the
\* specification, section 4.4
evaluate_logical(expr, env) ==
    LET left == evaluate(expr.left, env)
    IN  IF ~left.ok THEN left
        ELSE IF expr.operator.token_type = "OR"
        THEN (IF is_truthy(left.value) THEN left
              ELSE evaluate(expr.right, left.env))
        ELSE (IF ~is_truthy(left.value) THEN left
              ELSE evaluate(expr.right, left.env))

evaluate(expr, env) ==
    CASE expr.node = "Binary" ->
            LET left == evaluate(expr.left, env)
            IN  IF ~left.ok THEN left
                ELSE LET right == evaluate(expr.right, left.env)
                     IN  IF ~right.ok THEN right
                         ELSE binary_op(expr.operator, left.value,
                                        right.value, right.env)
      [] expr.node = "Literal" -> Ok(expr.value, env)
      [] expr.node = "Grouping" -> evaluate(expr.inner, env)
      [] expr.node = "Unary" ->
            LET right == evaluate(expr.right, env)
            IN  IF ~right.ok THEN right
                ELSE unary_op(expr.operator, right.value, right.env)
      [] expr.node = "Variable" ->
            LET found == get(env, Str(expr.name.lexeme))
            IN  IF found # Absent THEN Ok(found, env)
                ELSE Err(RuntimeError(expr.name.line,
                             "Undefined variable '" \o Str(expr.name.lexeme)
                                 \o "'"), env)
      [] expr.node = "Assignment" ->
            LET value == evaluate(expr.value, env)
            IN  IF ~value.ok THEN value
                ELSE LET done == assign(value.env, Str(expr.name.lexeme),
                                        value.value)
                     IN  IF done.ok THEN Ok(value.value, done.env)
                         ELSE Err(done.error, done.env)
      [] expr.node = "Logical" -> evaluate_logical(expr, env)

(***************************************************************************)
(* Statement execution (src/src/interpreter.rs, Interpreter::run) under    *)
(* the `run` command (src/src/main.rs).                                    *)
(*                                                                         *)
(* The recursion of run over nested blocks is kept as a stack of frames,   *)
(* innermost first: the bottom frame is main's `for statement in           *)
(* statements`, every other frame is the try_for_each of one Block being   *)
(* run.  A frame holds how many statements its Vec has (size) and how many *)
(* its iterator still has (left); the statements themselves are drawn when *)
(* they are run.  `statement` and `result` are the statement of the call   *)
(* of run that returned last, and the Result it returned.                  *)
(***************************************************************************)
MaxStmts == 5     \* statements of a program, the nested ones counted

Tok(type, lexeme, line) == Token(type, lexeme, None, line)

NameX == Tok("IDENTIFIER", <<"x">>, 1)

NameY == Tok("IDENTIFIER", <<"y">>, 2)

AndTok == Tok("AND", <<"a", "n", "d">>, 3)

OrTok == Tok("OR", <<"o", "r">>, 3)

MinusTok == Tok("MINUS", <<"-">>, 4)

PlusTok == Tok("PLUS", <<"+">>, 4)

\* the statements programs are made of, besides blocks
SimpleStatements ==
    { VarStmt(NameX, Literal(Number(IntNum(1)))),
      VarStmt(NameX, Literal(Number(IntNum(2)))),
      VarStmt(NameY, NoExpr),
      VarStmt(NameY, Assignment(NameX, Literal(Number(IntNum(3))))),
      ExpressionStmt(Assignment(NameX, Literal(Number(IntNum(3))))),
      ExpressionStmt(Assignment(NameY, Variable(NameX))),
      PrintStmt(Variable(NameX)),
      PrintStmt(Logical(Literal(Boolean(FALSE)), AndTok,
                        Assignment(NameX, Literal(Number(IntNum(2)))))) }

RunOk(env, out) == [ok |-> TRUE, env |-> env, out |-> out, error |-> NoError]

RunErr(error, env, out) == [ok |-> FALSE, env |-> env, out |-> out, error |-> error]

\* Interpreter::run on a Print, Expression or Var statement
run_simple(statement_, env, out) ==
    CASE statement_.stmt = "Print" ->
            LET value == evaluate(statement_.expr, env)
            IN  IF ~value.ok THEN RunErr(value.error, value.env, out)
                ELSE RunOk(value.env, Append(out, as_string(value.value)))
      [] statement_.stmt = "Expression" ->
            LET value == evaluate(statement_.expr, env)
            IN  IF ~value.ok THEN RunErr(value.error, value.env, out)
                ELSE RunOk(value.env, out)
      [] statement_.stmt = "Var" ->
            LET value == IF statement_.initializer # NoExpr
                         THEN evaluate(statement_.initializer, env)
                         ELSE Ok(Nil, env)
            IN  IF ~value.ok THEN RunErr(value.error, value.env, out)
                ELSE RunOk(define(value.env, Str(statement_.name.lexeme),
                                  value.value), out)

block_leave_unless_error(env, res) == IF res.ok THEN into_enclosing(env) ELSE env

\* Interpreter::run on a Block, entering: a new scope in front of the chain
block_enter(env) == with_enclosing(env)

\* Interpreter::run on a Block, leaving: the chain is the enclosing one
\* again, whatever the statements returned
block_leave(env, res) == into_enclosing(env)

iterator_ignores_error(frame, res) == frame.left > 0

\* whether a statement loop (try_for_each of a Block, the `for` of main)
\* runs its next statement: it has one, and no statement has failed
iterator_next(frame, res) == frame.left > 0 /\ res.ok

ResultOk == [ok |-> TRUE, error |-> NoError]

NoStatement == [stmt |-> "None"]

BlockStatement(n) == [stmt |-> "Block", size |-> n]

RunInit ==
    /\ environment = EnvironmentNew
    /\ stdout = <<>>
    /\ run_stderr = <<>>
    /\ \E n \in 1..MaxStmts :
          /\ frames = <<[left |-> n, size |-> n]>>
          /\ budget = MaxStmts - n
    /\ result = ResultOk
    /\ statement = NoStatement
    /\ exit_code = 0
    /\ runpc = "run"

\* run(statement) for a Print, Expression or Var statement
RunStatement(s) ==
    /\ runpc = "run"
    /\ iterator_next(Head(frames), result)
    /\ LET r == run_simple(s, environment, stdout)
       IN  /\ environment' = r.env
           /\ stdout' = r.out
           /\ result' = [ok |-> r.ok, error |-> r.error]
    /\ frames' = [frames EXCEPT ![1].left = @ - 1]
    /\ statement' = s
    /\ UNCHANGED <<run_stderr, budget, exit_code, runpc, lexvars, parsevars>>

\* run(statement) for a Block of n statements, up to the first of them
EnterBlock(n) ==
    /\ runpc = "run"
    /\ iterator_next(Head(frames), result)
    /\ n <= budget
    /\ environment' = block_enter(environment)
    /\ frames' = <<[left |-> n, size |-> n]>> \o [frames EXCEPT ![1].left = @ - 1]
    /\ budget' = budget - n
    /\ UNCHANGED <<stdout, run_stderr, result, statement, exit_code, runpc,
                   lexvars, parsevars>>

\* run(statement) for a Block, from the end of its try_for_each to its return
ExitBlock ==
    /\ runpc = "run"
    /\ Len(frames) > 1
    /\ ~iterator_next(Head(frames), result)
    /\ environment' = block_leave(environment, result)
    /\ frames' = Tail(frames)
    /\ statement' = BlockStatement(Head(frames).size)
    /\ UNCHANGED <<stdout, run_stderr, result, budget, exit_code, runpc, lexvars, parsevars>>

\* main: run returned Err
MainRuntimeError ==
    /\ runpc = "run"
    /\ Len(frames) = 1
    /\ ~result.ok
    /\ run_stderr' = Append(run_stderr, result.error)
    /\ exit_code' = 70
    /\ runpc' = "exited"
    /\ UNCHANGED <<environment, stdout, frames, result, statement, budget, lexvars, parsevars>>

\* main: every statement ran
MainFinish ==
    /\ runpc = "run"
    /\ Len(frames) = 1
    /\ result.ok
    /\ frames[1].left = 0
    /\ runpc' = "exited"
    /\ UNCHANGED <<environment, stdout, run_stderr, frames, result, statement,
                   budget, exit_code, lexvars, parsevars>>

RunNext ==
    \/ \E s \in SimpleStatements : RunStatement(s)
    \/ \E n \in 0..MaxStmts : EnterBlock(n)
    \/ ExitBlock
    \/ MainRuntimeError
    \/ MainFinish

(***************************************************************************)
(* What a chain of scopes says about a name, read off the chain alone.     *)
(***************************************************************************)
Innermost(env, n) ==
    IF \E i \in 1..Len(env) : env[i][n] # Absent
    THEN CHOOSE i \in 1..Len(env) :
             /\ env[i][n] # Absent
             /\ \A j \in 1..(i - 1) : env[j][n] = Absent
    ELSE 0

Resolve(env, n) ==
    IF Innermost(env, n) = 0 THEN Absent ELSE env[Innermost(env, n)][n]

Keys(scope) == {n \in Names : scope[n] # Absent}

TestValues == {Number(IntNum(7)), Nil, StringV(<<"s">>)}

IsPrefix(s, t) == Len(s) <= Len(t) /\ SubSeq(t, 1, Len(s)) = s

(***************************************************************************)
(* C4.  Running a Block pushes exactly one new empty scope and pops        *)
(* exactly that scope before it returns, whether its statements succeeded  *)
(* or one failed: the chain is as deep as the blocks being run are nested  *)
(* (plus the global scope), entering a block puts one empty scope in front *)
(* of the chain, and when a block returns the chain is the one that        *)
(* enclosed it; no other step changes the depth.                           *)
(***************************************************************************)
C4_BlockPushesAndPopsOneScope ==
    /\ [](Len(environment) = Len(frames))
    /\ [][/\ Len(frames') > Len(frames) =>
                environment' = <<EmptyScope>> \o environment
          /\ Len(frames') < Len(frames) =>
                /\ environment' = Tail(environment)
                /\ Len(environment') = Len(frames')
          /\ Len(frames') = Len(frames) =>
                Len(environment') = Len(environment)]_vars

C4_Witness ==
    /\ runpc = "run"
    /\ statement.stmt = "Block"
    /\ ~result.ok
    /\ Len(frames) = 2
    /\ Len(environment) = 2

(***************************************************************************)
(* C5.  A `var` declaration binds its name in the innermost scope only: it *)
(* changes no scope that encloses the one it runs in, and no other name of *)
(* its own scope.  When a block ends, every name resolves to what the      *)
(* enclosing chain held for it at that moment: a name the block shadowed   *)
(* resolves to the outer binding again, and a name declared only inside    *)
(* the block is undefined.                                                 *)
(***************************************************************************)
C5_ShadowingStaysInBlock ==
    [][/\ \A s \in SimpleStatements :
             (s.stmt = "Var" /\ RunStatement(s) /\ result'.ok) =>
                 LET init == IF s.initializer = NoExpr THEN Ok(Nil, environment)
                             ELSE evaluate(s.initializer, environment)
                     name == Str(s.name.lexeme)
                 IN  /\ Tail(environment') = Tail(init.env)
                     /\ environment'[1][name] = init.value
                     /\ \A m \in Names \ {name} :
                            environment'[1][m] = init.env[1][m]
                     /\ s.initializer.node \in {"None", "Literal"} =>
                            Tail(environment') = Tail(environment)
       /\ Len(frames') < Len(frames) =>
             \A n \in Names :
                 /\ Resolve(environment', n) = Resolve(Tail(environment), n)
                 /\ get(environment', n) = Resolve(Tail(environment), n)
                 /\ (\A i \in 2..Len(environment) : environment[i][n] = Absent)
                        => get(environment', n) = Absent]_vars

C5_Witness ==
    /\ runpc = "run"
    /\ statement = VarStmt(NameX, Literal(Number(IntNum(2))))
    /\ result.ok
    /\ Len(environment) = 2
    /\ environment[1]["x"] = Number(IntNum(2))
    /\ environment[2]["x"] = Number(IntNum(1))

(***************************************************************************)
(* C6.  Assigning to a name no scope of the chain defines fails with the   *)
(* RuntimeError "Undefined variable '<name>'", creates no binding and      *)
(* leaves every scope as it was, at any depth of the chain: so does        *)
(* Environment::assign, and so does evaluating the Assignment expression.  *)
(***************************************************************************)
C6_AssignUndefinedFails ==
    \A n \in Names : \A v \in TestValues :
        Innermost(environment, n) = 0 =>
            LET r == assign(environment, n, v)
                e == evaluate(Assignment(Tok("IDENTIFIER", <<n>>, 1), Literal(v)),
                              environment)
            IN  /\ ~r.ok
                /\ r.error.message = "Undefined variable '" \o n \o "'"
                /\ r.env = environment
                /\ ~e.ok
                /\ e.error.message = "Undefined variable '" \o n \o "'"
                /\ e.env = environment

C6_Witness ==
    /\ runpc = "run"
    /\ statement = ExpressionStmt(Assignment(NameX, Literal(Number(IntNum(3)))))
    /\ ~result.ok
    /\ result.error.message = "Undefined variable 'x'"
    /\ Len(environment) = 3
    /\ Innermost(environment, "x") = 0
    /\ Innermost(environment, "y") # 0

(***************************************************************************)
(* C7.  get and assign resolve a name to the innermost scope that defines  *)
(* it: get returns that scope's value (None when no scope defines it), and *)
(* a successful assign replaces the value in that scope only; every other  *)
(* scope, and the keys of every scope, stay as they were.                  *)
(***************************************************************************)
C7_InnermostDefinitionWins ==
    \A n \in Names :
        LET k == Innermost(environment, n)
        IN  /\ get(environment, n) = (IF k = 0 THEN Absent ELSE environment[k][n])
            /\ k # 0 =>
                 \A v \in TestValues :
                     LET r == assign(environment, n, v)
                     IN  /\ r.ok
                         /\ Len(r.env) = Len(environment)
                         /\ r.env[k][n] = v
                         /\ \A i \in 1..Len(environment) :
                                /\ Keys(r.env[i]) = Keys(environment[i])
                                /\ \A m \in Names :
                                       (i # k \/ m # n) =>
                                           r.env[i][m] = environment[i][m]

C7_Witness ==
    /\ runpc = "run"
    /\ statement = ExpressionStmt(Assignment(NameX, Literal(Number(IntNum(3)))))
    /\ result.ok
    /\ Len(environment) = 3
    /\ environment[1]["x"] = Absent
    /\ environment[2]["x"] = Number(IntNum(3))
    /\ environment[3]["x"] = Number(IntNum(1))

(***************************************************************************)
(* C8.  A Logical expression evaluates its left operand first.  When the   *)
(* left operand fails, that error is the result.  For `and` with a left    *)
(* value that is nil or false, and for `or` with any other left value, the *)
(* result is the left value itself and the right operand is not evaluated: *)
(* the environment is the one the left operand left, and no error is       *)
(* raised, even where the right operand would assign or fail.  Otherwise   *)
(* the result is that of the right operand, evaluated after the left.      *)
(***************************************************************************)
SlashTok == Tok("SLASH", <<"/">>, 4)

LogicalLefts ==
    { Literal(Boolean(FALSE)), Literal(Nil), Literal(Boolean(TRUE)),
      Literal(Number(IntNum(0))), Literal(StringV(<<>>)), Variable(NameX),
      Assignment(NameY, Literal(Nil)) }

LogicalRights ==
    { Assignment(NameX, Literal(Number(IntNum(2)))),
      Unary(MinusTok, Literal(Nil)),
      Binary(Literal(Number(IntNum(1))), SlashTok, Literal(Number(IntNum(0)))),
      Variable(NameY) }

C8_LogicalShortCircuits ==
    \A l \in LogicalLefts : \A r \in LogicalRights : \A op \in {AndTok, OrTok} :
        LET left  == evaluate(l, environment)
            whole == evaluate(Logical(l, op, r), environment)
            falsy == left.value = Nil \/ left.value = Boolean(FALSE)
            short == IF op.token_type = "AND" THEN falsy ELSE ~falsy
        IN  IF ~left.ok THEN whole = left
            ELSE IF short
            THEN /\ whole.ok
                 /\ whole.value = left.value
                 /\ whole.env = left.env
            ELSE whole = evaluate(r, left.env)

C8_Witness ==
    /\ runpc = "run"
    /\ statement = PrintStmt(Logical(Literal(Boolean(FALSE)), AndTok,
                       Assignment(NameX, Literal(Number(IntNum(2))))))
    /\ result.ok
    /\ stdout = <<as_string(Boolean(FALSE))>>
    /\ Len(environment) = 2
    /\ Resolve(environment, "x") = Number(IntNum(1))

(***************************************************************************)
(* C9.  Statements run in order and the run stops at the first one that    *)
(* fails: what earlier statements printed stays printed, and once a        *)
(* statement has failed no statement runs any more: nothing is printed,    *)
(* declared or assigned, the blocks being run only return (each popping    *)
(* its scope) with that same error, and main reports that error and exits  *)
(* with code 70 while the statements after the failing one are still       *)
(* unrun.                                                                  *)
(***************************************************************************)
C9_StopsAtFirstFailingStatement ==
    [][/\ IsPrefix(stdout, stdout')
       /\ (runpc = "run" /\ ~result.ok) =>
             /\ stdout' = stdout
             /\ result' = result
             /\ budget' = budget
             /\ \/ /\ Len(frames) > 1
                   /\ frames' = Tail(frames)
                   /\ environment' = Tail(environment)
                   /\ runpc' = "run"
                \/ /\ Len(frames) = 1
                   /\ frames' = frames
                   /\ environment' = environment
                   /\ runpc' = "exited"
                   /\ exit_code' = 70
                   /\ run_stderr' = <<result.error>>]_vars

C9_Witness ==
    /\ runpc = "exited"
    /\ exit_code = 70
    /\ run_stderr = <<RuntimeError(0, "Undefined variable 'y'")>>
    /\ stdout = <<as_string(Number(IntNum(1)))>>
    /\ statement.stmt = "Block"
    /\ frames[1].left > 0
    /\ budget = 0

(***************************************************************************)
(* The expression parser (src/src/parser.rs).  A Parser P is its tokens    *)
(* and its cursor; every parsing operator yields Result<Expr, ParseError>  *)
(* and the Parser as the call leaves it.                                   *)
(***************************************************************************)
ParserNew(tokens) == [tokens |-> tokens, current |-> 0]

ParseError(line, location, message) ==
    [line |-> line, location |-> location, message |-> message]

NoParseError == ParseError(0, "", "")

POk(expr, P) == [ok |-> TRUE, expr |-> expr, P |-> P, error |-> NoParseError]

PErr(error, P) == [ok |-> FALSE, expr |-> NoExpr, P |-> P, error |-> error]

parser_is_at_end(P) ==
    \/ P.current >= Len(P.tokens)
    \/ P.tokens[P.current + 1].token_type = "EOF"

parser_peek(P) == P.tokens[P.current + 1]

parser_previous(P) == P.tokens[P.current]

parser_advance(P) ==
    IF ~parser_is_at_end(P) THEN [P EXCEPT !.current = @ + 1] ELSE P

parser_check(P, type) ==
    ~parser_is_at_end(P) /\ parser_peek(P).token_type = type

\* match_any: whether it matched; the caller then holds parser_advance(P)
match_any(P, types) == \E t \in types : parser_check(P, t)

parser_error(P, message) ==
    LET token == parser_peek(P)
    IN  ParseError(token.line,
                   IF token.token_type = "EOF" THEN "at end"
                   ELSE "at '" \o Str(token.lexeme) \o "'",
                   message)

consume(P, type, message) ==
    IF parser_check(P, type) THEN POk(NoExpr, parser_advance(P))
    ELSE PErr(parser_error(P, message), P)

RECURSIVE expression(_)
RECURSIVE binary_rule(_, _)
RECURSIVE binary_rule_loop(_, _)
RECURSIVE unary(_)
RECURSIVE primary(_)

\* the `?` of a loop body, then expr = Expr::Binary { left: expr, operator, right }
binary_node(acc, operator, right) ==
    IF ~right.ok THEN right
    ELSE POk(Binary(acc.expr, operator, right.expr), right.P)

\* the `?` of a loop body, then expr = Expr::Logical { left: expr, operator, right }
logical_node(acc, operator, right) ==
    IF ~right.ok THEN right
    ELSE POk(Logical(acc.expr, operator, right.expr), right.P)

\* Expr::Unary { operator, right } of the operand parsed
unary_node(operator, right) ==
    IF ~right.ok THEN right ELSE POk(Unary(operator, right.expr), right.P)

\* primary, after the inner expression of a parenthesis
grouping_node(inner) ==
    IF ~inner.ok THEN inner
    ELSE IF ~consume(inner.P, "RIGHT_PAREN", "Expect ')' after expression").ok
    THEN consume(inner.P, "RIGHT_PAREN", "Expect ')' after expression")
    ELSE POk(Grouping(inner.expr),
             consume(inner.P, "RIGHT_PAREN", "Expect ')' after expression").P)

primary(P) ==
    LET token == parser_peek(P)
        ty == token.token_type
    IN  CASE ty = "TRUE" -> POk(Literal(Boolean(TRUE)), parser_advance(P))
          [] ty = "FALSE" -> POk(Literal(Boolean(FALSE)), parser_advance(P))
          [] ty = "NIL" -> POk(Literal(Nil), parser_advance(P))
          [] ty = "NUMBER" ->
               IF token.literal = None
               THEN PErr(parser_error(P, "Expected number literal"), P)
               ELSE IF ~ParseF64(token.literal).ok
               THEN PErr(parser_error(P, "Invalid number literal"), P)
               ELSE POk(Literal(Number(ParseF64(token.literal).n)),
                        parser_advance(P))
          [] ty = "STRING" ->
               IF token.literal = None
               THEN PErr(parser_error(P, "Expected string literal"), P)
               ELSE POk(Literal(StringV(token.literal)), parser_advance(P))
          [] ty = "LEFT_PAREN" -> grouping_node(expression(parser_advance(P)))
          [] ty = "IDENTIFIER" -> POk(Variable(token), parser_advance(P))
          [] OTHER -> PErr(parser_error(P, "Expected expression"), P)

unary(P) ==
    IF match_any(P, {"BANG", "MINUS"})
    THEN unary_node(parser_previous(parser_advance(P)), unary(parser_advance(P)))
    ELSE primary(P)

(***************************************************************************)
(* factor, term, comparison, equality, logical_and and logical_or are one  *)
(* method six times over: parse an operand with the next method of the     *)
(* ladder, then, while one of the rule's operator tokens follows, parse    *)
(* another operand and make the node of both.  binary_rule is that method, *)
(* given the rule's name.                                                  *)
(***************************************************************************)
\* the token types the while loop of a rule matches
rule_operators(rule) ==
    CASE rule = "factor" -> {"STAR", "SLASH"}
      [] rule = "term" -> {"PLUS", "MINUS"}
      [] rule = "comparison" -> {"GREATER", "GREATER_EQUAL", "LESS", "LESS_EQUAL"}
      [] rule = "equality" -> {"BANG_EQUAL", "EQUAL_EQUAL"}
      [] rule = "logical_and" -> {"AND"}
      [] rule = "logical_or" -> {"OR"}

rule_operand_term_takes_unary(rule) ==
    CASE rule = "factor" -> "unary"
      [] rule = "term" -> "unary"
      [] rule = "comparison" -> "term"
      [] rule = "equality" -> "comparison"
      [] rule = "logical_and" -> "equality"
      [] rule = "logical_or" -> "logical_and"

\* the method a rule parses its operands with
rule_operand(rule) ==
    CASE rule = "factor" -> "unary"
      [] rule = "term" -> "factor"
      [] rule = "comparison" -> "term"
      [] rule = "equality" -> "comparison"
      [] rule = "logical_and" -> "equality"
      [] rule = "logical_or" -> "logical_and"

\* the node a rule makes of its operands
rule_node(rule, acc, operator, right) ==
    IF rule \in {"logical_and", "logical_or"}
    THEN logical_node(acc, operator, right)
    ELSE binary_node(acc, operator, right)

binary_rule_loop_or_once(rule, acc) ==
    IF acc.ok /\ match_any(acc.P, rule_operators(rule))
    THEN LET next == rule_node(rule, acc, parser_previous(parser_advance(acc.P)),
                               binary_rule(rule_operand(rule), parser_advance(acc.P)))
         IN  IF rule = "logical_or" THEN next ELSE binary_rule_loop(rule, next)
    ELSE acc

\* the while loop of a rule; acc is expr so far, or the error `?` returns
binary_rule_loop(rule, acc) ==
    IF acc.ok /\ match_any(acc.P, rule_operators(rule))
    THEN binary_rule_loop(rule,
             rule_node(rule, acc, parser_previous(parser_advance(acc.P)),
                       binary_rule(rule_operand(rule), parser_advance(acc.P))))
    ELSE acc

binary_rule(rule, P) ==
    IF rule = "unary" THEN unary(P)
    ELSE binary_rule_loop(rule, binary_rule(rule_operand(rule), P))

factor(P) == binary_rule("factor", P)

term(P) == binary_rule("term", P)

comparison(P) == binary_rule("comparison", P)

equality(P) == binary_rule("equality", P)

logical_and(P) == binary_rule("logical_and", P)

logical_or(P) == binary_rule("logical_or", P)

\* assignment, after `=`: the value parsed, then the target is looked at
assignment_node_any_target(expr, value) ==
    IF ~value.ok THEN value
    ELSE IF expr.expr.node = "Variable"
    THEN POk(Assignment(expr.expr.name, value.expr), value.P)
    ELSE POk(value.expr, value.P)

assignment_node(expr, value) ==
    IF ~value.ok THEN value
    ELSE IF expr.expr.node = "Variable"
    THEN POk(Assignment(expr.expr.name, value.expr), value.P)
    ELSE PErr(parser_error(value.P, "Invalid assignment target."), value.P)

\* assignment, after `or`: the operand parsed is dropped
dropped_or(expr, right) == IF ~right.ok THEN right ELSE POk(expr.expr, right.P)

\* assignment, after its left side
RECURSIVE assignment(_)
assignment_rest(expr) ==
    IF ~expr.ok THEN expr
    ELSE IF match_any(expr.P, {"EQUAL"})
    THEN assignment_node(expr, assignment(parser_advance(expr.P)))
    ELSE IF match_any(expr.P, {"OR"})
    THEN dropped_or(expr, logical_or(parser_advance(expr.P)))
    ELSE expr

assignment(P) == assignment_rest(logical_or(P))

expression(P) == assignment(P)

\* Parser::parse
parse(P) == expression(P)

(***************************************************************************)
(* The statement parser (src/src/parser.rs).  A statement method yields    *)
(* Result<Statement, ParseError>, block and parse_statements yield         *)
(* Result<Vec<Statement>, ParseError>, each with the Parser as it is left. *)
(***************************************************************************)
BlockStmt(stmts) == [stmt |-> "Block", statements |-> stmts]

\* else_branch: NoStatement is None
IfStmt(condition, then_branch, else_branch) ==
    [stmt |-> "If", condition |-> condition, then_branch |-> then_branch,
     else_branch |-> else_branch]

SOk(stmt, P) == [ok |-> TRUE, statement |-> stmt, P |-> P, error |-> NoParseError]

SErr(error, P) == [ok |-> FALSE, statement |-> NoStatement, P |-> P, error |-> error]

VOk(stmts, P) ==
    [ok |-> TRUE, statements |-> stmts, P |-> P, error |-> NoParseError]

VErr(error, P) == [ok |-> FALSE, statements |-> <<>>, P |-> P, error |-> error]

RECURSIVE parser_statement(_)
RECURSIVE block_loop(_)
RECURSIVE block(_)
RECURSIVE if_statement(_)

\* `expression()?` and then `consume(SEMICOLON, message)?`
semicolon_after(value, message) ==
    IF ~value.ok THEN value
    ELSE IF ~consume(value.P, "SEMICOLON", message).ok
    THEN consume(value.P, "SEMICOLON", message)
    ELSE POk(value.expr, consume(value.P, "SEMICOLON", message).P)

print_node(value) ==
    IF ~value.ok THEN SErr(value.error, value.P)
    ELSE SOk(PrintStmt(value.expr), value.P)

print_statement(P) ==
    print_node(semicolon_after(expression(P), "Expect ';' after value."))

expression_node(expr) ==
    IF ~expr.ok THEN SErr(expr.error, expr.P)
    ELSE SOk(ExpressionStmt(expr.expr), expr.P)

expression_statement(P) ==
    expression_node(semicolon_after(expression(P), "Expect ';' after expression."))

var_node(name, initializer) ==
    IF ~initializer.ok THEN SErr(initializer.error, initializer.P)
    ELSE SOk(VarStmt(name, initializer.expr), initializer.P)

\* var_statement, after the name was consumed (or was not there)
var_initializer(name) ==
    IF ~name.ok THEN SErr(name.error, name.P)
    ELSE IF parser_check(name.P, "EQUAL")
    THEN var_node(parser_previous(name.P),
                  semicolon_after(expression(parser_advance(name.P)),
                                  "Expect ';' after variable declaration."))
    ELSE var_node(parser_previous(name.P),
                  semicolon_after(POk(NoExpr, name.P),
                                  "Expect ';' after variable declaration."))

var_statement(P) ==
    var_initializer(consume(P, "IDENTIFIER", "Expect variable name."))

push_statement_keeps_parsed(acc, stmt) ==
    IF ~stmt.ok
    THEN VOk(acc.statements, [stmt.P EXCEPT !.current = Len(stmt.P.tokens) - 1])
    ELSE VOk(Append(acc.statements, stmt.statement), stmt.P)

\* statements.push(self.statement()?)
push_statement(acc, stmt) ==
    IF ~stmt.ok THEN VErr(stmt.error, stmt.P)
    ELSE VOk(Append(acc.statements, stmt.statement), stmt.P)

\* the while loop of block
block_loop(acc) ==
    IF acc.ok /\ ~parser_check(acc.P, "RIGHT_BRACE") /\ ~parser_is_at_end(acc.P)
    THEN block_loop(push_statement(acc, parser_statement(acc.P)))
    ELSE acc

block_close(acc) ==
    IF ~acc.ok THEN acc
    ELSE IF ~consume(acc.P, "RIGHT_BRACE", "Expect '}' after block.").ok
    THEN VErr(consume(acc.P, "RIGHT_BRACE", "Expect '}' after block.").error, acc.P)
    ELSE VOk(acc.statements,
             consume(acc.P, "RIGHT_BRACE", "Expect '}' after block.").P)

block(P) == block_close(block_loop(VOk(<<>>, P)))

\* Ok(Statement::Block(self.block()?))
block_node(stmts) ==
    IF ~stmts.ok THEN SErr(stmts.error, stmts.P)
    ELSE SOk(BlockStmt(stmts.statements), stmts.P)

if_node(condition, then_branch, else_branch) ==
    IF ~else_branch.ok THEN else_branch
    ELSE SOk(IfStmt(condition, then_branch, else_branch.statement), else_branch.P)

if_else_binds_outer(condition, then_branch) ==
    IF ~then_branch.ok THEN then_branch
    ELSE IF match_any(then_branch.P, {"ELSE"})
    THEN if_node(condition, then_branch.statement,
                 parser_statement(parser_advance(then_branch.P)))
    ELSE IF then_branch.statement.stmt = "If"
            /\ then_branch.statement.else_branch # NoStatement
    THEN SOk(IfStmt(condition,
                    [then_branch.statement EXCEPT !.else_branch = NoStatement],
                    then_branch.statement.else_branch), then_branch.P)
    ELSE SOk(IfStmt(condition, then_branch.statement, NoStatement), then_branch.P)

\* if_statement, after the then branch
if_else(condition, then_branch) ==
    IF ~then_branch.ok THEN then_branch
    ELSE IF match_any(then_branch.P, {"ELSE"})
    THEN if_node(condition, then_branch.statement,
                 parser_statement(parser_advance(then_branch.P)))
    ELSE SOk(IfStmt(condition, then_branch.statement, NoStatement), then_branch.P)

\* if_statement, after `)`
if_then(condition, close) ==
    IF ~close.ok THEN SErr(close.error, close.P)
    ELSE if_else(condition, parser_statement(close.P))

\* if_statement, after the condition
if_close(condition) ==
    IF ~condition.ok THEN SErr(condition.error, condition.P)
    ELSE if_then(condition.expr,
                 consume(condition.P, "RIGHT_PAREN", "Expect ')' after if condition."))

\* if_statement, after `(`
if_condition(open) ==
    IF ~open.ok THEN SErr(open.error, open.P) ELSE if_close(expression(open.P))

if_statement(P) == if_condition(consume(P, "LEFT_PAREN", "Expect '(' after 'if'."))

parser_statement(P) ==
    IF match_any(P, {"PRINT"}) THEN print_statement(parser_advance(P))
    ELSE IF match_any(P, {"VAR"}) THEN var_statement(parser_advance(P))
    ELSE IF match_any(P, {"LEFT_BRACE"}) THEN block_node(block(parser_advance(P)))
    ELSE IF match_any(P, {"IF"}) THEN if_statement(parser_advance(P))
    ELSE expression_statement(P)

\* the while loop of parse_statements
RECURSIVE parse_statements_loop(_)
parse_statements_loop(acc) ==
    IF acc.ok /\ ~parser_is_at_end(acc.P)
    THEN parse_statements_loop(push_statement(acc, parser_statement(acc.P)))
    ELSE acc

parse_statements(P) == parse_statements_loop(VOk(<<>>, P))

(***************************************************************************)
(* main's `evaluate` command (src/src/main.rs): scan the source, parse one *)
(* expression, evaluate it, print the value.  The sources are words        *)
(* separated by a blank; the k-th number word is the digit k and the k-th  *)
(* identifier word is the k-th of a, b, c, ...                             *)
(***************************************************************************)
MaxWords == 3      \* words of a source made of arbitrary words

MaxOps == 2        \* binary operators of a source that is a chain of operands

Words == {"N", "I", "+", "-", "*", "<", "==", "(", ")", "@"}

BinaryWords == {"+", "-", "*", "<", "=="}

Operands == {<<"N">>, <<"I">>, <<"-", "N">>, <<"(", "N", "+", "N", ")">>}

RECURSIVE Chains(_)
Chains(k) ==
    IF k = 0 THEN Operands
    ELSE {c \o <<op>> \o o : c \in Chains(k - 1), op \in BinaryWords, o \in Operands}

WordSeqs ==
    (UNION {[1..n -> Words] : n \in 0..MaxWords})
        \cup (UNION {Chains(k) : k \in 0..MaxOps})

IdentChars == <<"a", "b", "c", "d", "e", "f", "g", "h", "i">>

WordChars(w, n, i) ==
    CASE w = "N" -> <<DigitChar(n)>>
      [] w = "I" -> <<IdentChars[i]>>
      [] w = "==" -> <<"=", "=">>
      [] w = "or" -> <<"o", "r">>
      [] w = "and" -> <<"a", "n", "d">>
      [] w = "nil" -> <<"n", "i", "l">>
      [] w = "true" -> <<"t", "r", "u", "e">>
      [] w = "false" -> <<"f", "a", "l", "s", "e">>
      [] w = "print" -> <<"p", "r", "i", "n", "t">>
      [] w = "var" -> <<"v", "a", "r">>
      [] w = "if" -> <<"i", "f">>
      [] w = "else" -> <<"e", "l", "s", "e">>
      [] w = "'p'" -> <<"\"", "p", "\"">>
      [] w = "'q'" -> <<"\"", "q", "\"">>
      [] OTHER -> <<w>>

RECURSIVE Render(_, _, _)
Render(ws, n, i) ==
    IF ws = <<>> THEN <<>>
    ELSE LET w == Head(ws)
         IN  WordChars(w, n, i)
                 \o (IF Tail(ws) = <<>> THEN <<>> ELSE <<" ">>)
                 \o Render(Tail(ws), IF w = "N" THEN n + 1 ELSE n,
                           IF w = "I" THEN i + 1 ELSE i)

SourceOf(ws) == Render(ws, 1, 1)

EvaluateInit ==
    /\ \E ws \in WordSeqs : lexer = LexerNew(SourceOf(ws))
    /\ parser = ParserNew(<<>>)
    /\ parse_result = POk(NoExpr, ParserNew(<<>>))
    /\ statements = <<>>
    /\ cmdpc = "lex"
    /\ environment = EnvironmentNew
    /\ stdout = <<>>
    /\ run_stderr = <<>>
    /\ exit_code = 0

\* Lexer::new(&args.source).scan_tokens()
Scanned == eof_token(scan_loop(lexer))

\* the lexer reported an error: exit 65
EvaluateLexError ==
    /\ cmdpc = "lex"
    /\ lexer' = Scanned
    /\ lexer'.had_error
    /\ exit_code' = 65
    /\ cmdpc' = "exited"
    /\ UNCHANGED <<lexpc, environment, stdout, run_stderr, frames, result,
                   statement, budget, runpc, parser, parse_result, statements>>

\* Parser::new(lex_result.tokens), Interpreter::new()
EvaluateLex ==
    /\ cmdpc = "lex"
    /\ lexer' = Scanned
    /\ ~lexer'.had_error
    /\ parser' = ParserNew(lexer'.tokens)
    /\ cmdpc' = "parse"
    /\ UNCHANGED <<lexpc, runvars, parse_result, statements>>

\* parser.parse() is Ok(expr)
EvaluateParse ==
    /\ cmdpc = "parse"
    /\ parse_result' = parse(parser)
    /\ parse_result'.ok
    /\ parser' = parse_result'.P
    /\ cmdpc' = "evaluate"
    /\ UNCHANGED <<lexvars, runvars, statements>>

\* parser.parse() is Err(e): eprintln, exit 65
EvaluateParseError ==
    /\ cmdpc = "parse"
    /\ parse_result' = parse(parser)
    /\ ~parse_result'.ok
    /\ parser' = parse_result'.P
    /\ run_stderr' = Append(run_stderr, parse_result'.error)
    /\ exit_code' = 65
    /\ cmdpc' = "exited"
    /\ UNCHANGED <<lexvars, environment, stdout, frames, result, statement,
                   budget, runpc, statements>>

\* interpreter.evaluate(expr) is Ok(value): println
EvaluateValue ==
    /\ cmdpc = "evaluate"
    /\ LET r == evaluate(parse_result.expr, environment)
       IN  /\ r.ok
           /\ environment' = r.env
           /\ stdout' = Append(stdout, as_string(r.value))
    /\ cmdpc' = "exited"
    /\ UNCHANGED <<lexvars, run_stderr, frames, result, statement, budget,
                   exit_code, runpc, parser, parse_result, statements>>

\* interpreter.evaluate(expr) is Err(e): eprintln, exit 70
EvaluateRuntimeError ==
    /\ cmdpc = "evaluate"
    /\ LET r == evaluate(parse_result.expr, environment)
       IN  /\ ~r.ok
           /\ environment' = r.env
           /\ run_stderr' = Append(run_stderr, r.error)
    /\ exit_code' = 70
    /\ cmdpc' = "exited"
    /\ UNCHANGED <<lexvars, stdout, frames, result, statement, budget, runpc,
                   parser, parse_result, statements>>

EvaluateNext ==
    \/ EvaluateLexError
    \/ EvaluateLex
    \/ EvaluateParse
    \/ EvaluateParseError
    \/ EvaluateValue
    \/ EvaluateRuntimeError

(***************************************************************************)
(* The tree the grammar's precedence ladder gives a token sequence, found  *)
(* without descending the ladder: the root is the rightmost binary         *)
(* operator of the lowest level outside every parenthesis.                 *)
(***************************************************************************)
LadderLevel(type) ==
    CASE type \in {"BANG_EQUAL", "EQUAL_EQUAL"} -> 1
      [] type \in {"GREATER", "GREATER_EQUAL", "LESS", "LESS_EQUAL"} -> 2
      [] type \in {"PLUS", "MINUS"} -> 3
      [] type \in {"STAR", "SLASH"} -> 4
      [] OTHER -> 0

RECURSIVE ParenDepth(_, _)
ParenDepth(ts, i) ==
    IF i <= 1 THEN 0
    ELSE ParenDepth(ts, i - 1)
            + (IF ts[i - 1].token_type = "LEFT_PAREN" THEN 1
               ELSE IF ts[i - 1].token_type = "RIGHT_PAREN" THEN -1 ELSE 0)

\* positions of the binary operators outside every parenthesis
TopOperators(ts) ==
    {i \in 2..Len(ts) :
        /\ LadderLevel(ts[i].token_type) > 0
        /\ ts[i - 1].token_type \in {"NUMBER", "IDENTIFIER", "RIGHT_PAREN"}
        /\ ParenDepth(ts, i) = 0}

\* of those positions, the rightmost of the lowest level
RootOperator(ts, tops) ==
    LET low == CHOOSE l \in 1..4 :
                   /\ \E i \in tops : LadderLevel(ts[i].token_type) = l
                   /\ \A i \in tops : LadderLevel(ts[i].token_type) >= l
    IN  CHOOSE i \in tops :
            /\ LadderLevel(ts[i].token_type) = low
            /\ \A j \in tops : LadderLevel(ts[j].token_type) = low => j <= i

Malformed == [node |-> "Malformed"]

RECURSIVE LadderTree(_)
LadderTree(ts) ==
    IF ts = <<>> THEN Malformed
    ELSE IF TopOperators(ts) # {}
    THEN LET r == RootOperator(ts, TopOperators(ts))
         IN  Binary(LadderTree(SubSeq(ts, 1, r - 1)), ts[r],
                    LadderTree(SubSeq(ts, r + 1, Len(ts))))
    ELSE IF ts[1].token_type \in {"MINUS", "BANG"}
    THEN Unary(ts[1], LadderTree(Tail(ts)))
    ELSE IF ts[1].token_type = "LEFT_PAREN" /\ ts[Len(ts)].token_type = "RIGHT_PAREN"
    THEN Grouping(LadderTree(SubSeq(ts, 2, Len(ts) - 1)))
    ELSE IF Len(ts) = 1 /\ ts[1].token_type = "NUMBER"
    THEN Literal(Number(IntNum(DigitsVal(ts[1].lexeme))))
    ELSE IF Len(ts) = 1 /\ ts[1].token_type = "IDENTIFIER"
    THEN Variable(ts[1])
    ELSE Malformed

RECURSIVE HasMalformed(_)
HasMalformed(e) ==
    CASE e.node = "Malformed" -> TRUE
      [] e.node = "Binary" -> HasMalformed(e.left) \/ HasMalformed(e.right)
      [] e.node = "Unary" -> HasMalformed(e.right)
      [] e.node = "Grouping" -> HasMalformed(e.inner)
      [] OTHER -> FALSE

\* the tokens before EOF
ParsedTokens == SubSeq(parser.tokens, 1, Len(parser.tokens) - 1)

\* parse returned Ok and left nothing but EOF
ParsedWhole ==
    /\ cmdpc \in {"evaluate", "exited"}
    /\ parse_result.ok
    /\ parser.current = Len(parser.tokens) - 1

NumberLit(k) == Literal(Number(IntNum(k)))

\* C10: the parser's ladder equality < comparison < term < factor < unary:
\* whenever the tokens are an expression of the ladder, parse returns the
\* tree whose root is the rightmost lowest-level operator outside the
\* parentheses (so a higher-level operator is deeper, a chain of one level
\* nests to the left, and a parenthesis is one operand); `1 + 2 * 3` parses
\* to (+ 1 (* 2 3)) and prints 7; `a - b - c` parses to (- (- a b) c).
C10_PrecedenceLadder ==
    /\ cmdpc \in {"evaluate", "exited"}
        => LET tree == LadderTree(ParsedTokens)
               wellformed == ~HasMalformed(tree)
           IN  /\ parse_result.ok => (ParsedWhole <=> wellformed)
               /\ wellformed => parse_result.ok /\ parse_result.expr = tree
    /\ cmdpc = "exited" /\ lexer.source = SourceOf(<<"N", "+", "N", "*", "N">>)
        => /\ parse_result.expr.node = "Binary"
           /\ parse_result.expr.operator.token_type = "PLUS"
           /\ parse_result.expr.left = NumberLit(1)
           /\ parse_result.expr.right.node = "Binary"
           /\ parse_result.expr.right.operator.token_type = "STAR"
           /\ parse_result.expr.right.left = NumberLit(2)
           /\ parse_result.expr.right.right = NumberLit(3)
           /\ stdout = <<<<"7">>>>
           /\ exit_code = 0
    /\ cmdpc = "exited" /\ lexer.source = SourceOf(<<"I", "-", "I", "-", "I">>)
        => /\ parse_result.expr.node = "Binary"
           /\ parse_result.expr.operator.token_type = "MINUS"
           /\ parse_result.expr.right.node = "Variable"
           /\ parse_result.expr.right.name.lexeme = <<"c">>
           /\ parse_result.expr.left.node = "Binary"
           /\ parse_result.expr.left.operator.token_type = "MINUS"
           /\ parse_result.expr.left.left.node = "Variable"
           /\ parse_result.expr.left.left.name.lexeme = <<"a">>
           /\ parse_result.expr.left.right.node = "Variable"
           /\ parse_result.expr.left.right.name.lexeme = <<"b">>

\* `1 + 2 * 3` was parsed and evaluated, and 7 was printed
C10_Witness ==
    /\ cmdpc = "exited"
    /\ lexer.source = SourceOf(<<"N", "+", "N", "*", "N">>)
    /\ ParsedWhole
    /\ stdout = <<<<"7">>>>

(***************************************************************************)
(* Interpreter::run as one call (src/src/interpreter.rs): a Block runs its *)
(* statements inside the call.  Statement::If has no arm in the source's   *)
(* run; run_if is what the specification's section on statements says.     *)
(***************************************************************************)
RECURSIVE run(_, _, _)
RECURSIVE run_statements(_, _)

\* statements.into_iter().try_for_each(|s| self.run(s))
run_statements(stmts, r) ==
    IF iterator_next([left |-> Len(stmts)], r)
    THEN run_statements(Tail(stmts), run(Head(stmts), r.env, r.out))
    ELSE r

\* the Block arm, the statements done
run_block_leave(r) == [r EXCEPT !.env = block_leave(r.env, r)]

run_if_skips_else(statement_, env, out) ==
    LET condition == evaluate(statement_.condition, env)
    IN  IF ~condition.ok THEN RunErr(condition.error, condition.env, out)
        ELSE IF is_truthy(condition.value)
        THEN run(statement_.then_branch, condition.env, out)
        ELSE RunOk(condition.env, out)

run_if(statement_, env, out) ==
    LET condition == evaluate(statement_.condition, env)
    IN  IF ~condition.ok THEN RunErr(condition.error, condition.env, out)
        ELSE IF is_truthy(condition.value)
        THEN run(statement_.then_branch, condition.env, out)
        ELSE IF statement_.else_branch # NoStatement
        THEN run(statement_.else_branch, condition.env, out)
        ELSE RunOk(condition.env, out)

run(statement_, env, out) ==
    CASE statement_.stmt = "Block" ->
            run_block_leave(run_statements(statement_.statements,
                                           RunOk(block_enter(env), out)))
      [] statement_.stmt = "If" -> run_if(statement_, env, out)
      [] OTHER -> run_simple(statement_, env, out)

(***************************************************************************)
(* main's `run` command as a whole (src/src/main.rs): scan the source,     *)
(* parse the program, run its statements one after the other.  The         *)
(* programs are sequences of statement texts, one to a line, and chains of *)
(* nested ifs without braces.                                              *)
(***************************************************************************)
MaxProgStmts == 2     \* statement texts of a program

MaxIfs == 3           \* nested ifs of a chain

StatementTexts ==
    {<<"print", "N", ";">>,
     <<"print", "x", ";">>,
     <<"var", "x", "=", "N", ";">>,
     <<"x", "=", "N", ";">>,
     <<"y", "=", "N", ";">>,
     <<"print", "-", "\n", "nil", ";">>,
     <<"{", "var", "x", "=", "N", ";", "print", "x", ";", "}">>,
     <<"if", "(", "x", ")", "print", "N", ";", "else", "x", "=", "N", ";">>,
     <<"if", "(", "!", "x", ")", "{", "print", "N", ";", "}">>,
     <<"if", "(", "x", "=", "x", "+", "N", ")", "print", "x", ";",
       "else", "print", "N", ";">>,
     <<"print", "N">>,
     <<"{", "print", "N", ";">>,
     <<"print", "@", ";">>}

RECURSIVE ProgramTexts(_)
ProgramTexts(k) ==
    IF k = 1 THEN StatementTexts
    ELSE {p \o <<"\n">> \o t : p \in ProgramTexts(k - 1), t \in StatementTexts}

IfConditions == {"true", "false", "I"}

\* if ( c1 ) ... if ( cn ) print N ; followed by m times: else print N ;
RECURSIVE IfHeads(_)
IfHeads(conds) ==
    IF conds = <<>> THEN <<>>
    ELSE <<"if", "(", Head(conds), ")">> \o IfHeads(Tail(conds))

RECURSIVE Elses(_)
Elses(m) == IF m = 0 THEN <<>> ELSE <<"else", "print", "N", ";">> \o Elses(m - 1)

IfChainText(conds, m) == IfHeads(conds) \o <<"print", "N", ";">> \o Elses(m)

IfChains ==
    {[conds |-> c, elses |-> m] :
        c \in UNION {[1..n -> IfConditions] : n \in 1..MaxIfs}, m \in 0..MaxIfs}

IfChainTexts == {IfChainText(c.conds, c.elses) : c \in IfChains}

ProgramSources ==
    (UNION {ProgramTexts(k) : k \in 1..MaxProgStmts}) \cup IfChainTexts
        \cup {<<>>}

ProgramInit ==
    /\ \E ws \in ProgramSources : lexer = LexerNew(SourceOf(ws))
    /\ parser = ParserNew(<<>>)
    /\ parse_result = POk(NoExpr, ParserNew(<<>>))
    /\ statements = <<>>
    /\ cmdpc = "lex"
    /\ environment = EnvironmentNew
    /\ stdout = <<>>
    /\ run_stderr = <<>>
    /\ exit_code = 0

\* the lexer reported an error: exit 65
ProgramLexError ==
    /\ cmdpc = "lex"
    /\ lexer' = Scanned
    /\ lexer'.had_error
    /\ exit_code' = 65
    /\ cmdpc' = "exited"
    /\ UNCHANGED <<lexpc, environment, stdout, run_stderr, frames, result,
                   statement, budget, runpc, parser, parse_result, statements>>

\* Parser::new(lex_result.tokens), Interpreter::new()
ProgramLex ==
    /\ cmdpc = "lex"
    /\ lexer' = Scanned
    /\ ~lexer'.had_error
    /\ parser' = ParserNew(lexer'.tokens)
    /\ cmdpc' = "parse"
    /\ UNCHANGED <<lexpc, runvars, parse_result, statements>>

\* parser.parse_statements() is Ok(statements)
ProgramParse ==
    /\ cmdpc = "parse"
    /\ parse_result' = parse_statements(parser)
    /\ parse_result'.ok
    /\ parser' = parse_result'.P
    /\ statements' = parse_result'.statements
    /\ cmdpc' = "run"
    /\ UNCHANGED <<lexvars, runvars>>

\* parser.parse_statements() is Err(e): eprintln, exit 65
ProgramParseError ==
    /\ cmdpc = "parse"
    /\ parse_result' = parse_statements(parser)
    /\ ~parse_result'.ok
    /\ parser' = parse_result'.P
    /\ run_stderr' = Append(run_stderr, parse_result'.error)
    /\ exit_code' = 65
    /\ cmdpc' = "exited"
    /\ UNCHANGED <<lexvars, environment, stdout, frames, result, statement,
                   budget, runpc, statements>>

\* one turn of `for statement in statements`: interpreter.run(statement) is Ok
ProgramRun ==
    /\ cmdpc = "run"
    /\ statements # <<>>
    /\ LET r == run(Head(statements), environment, stdout)
       IN  /\ r.ok
           /\ environment' = r.env
           /\ stdout' = r.out
    /\ statements' = Tail(statements)
    /\ UNCHANGED <<lexvars, run_stderr, frames, result, statement, budget,
                   exit_code, runpc, parser, parse_result, cmdpc>>

\* interpreter.run(statement) is Err(e): eprintln, exit 70
ProgramRuntimeError ==
    /\ cmdpc = "run"
    /\ statements # <<>>
    /\ LET r == run(Head(statements), environment, stdout)
       IN  /\ ~r.ok
           /\ environment' = r.env
           /\ stdout' = r.out
           /\ run_stderr' = Append(run_stderr, r.error)
    /\ exit_code' = 70
    /\ cmdpc' = "exited"
    /\ UNCHANGED <<lexvars, frames, result, statement, budget, runpc, parser,
                   parse_result, statements>>

\* the loop is over: main returns
ProgramFinish ==
    /\ cmdpc = "run"
    /\ statements = <<>>
    /\ cmdpc' = "exited"
    /\ UNCHANGED <<lexvars, runvars, parser, parse_result, statements>>

ProgramNext ==
    \/ ProgramLexError
    \/ ProgramLex
    \/ ProgramParse
    \/ ProgramParseError
    \/ ProgramRun
    \/ ProgramRuntimeError
    \/ ProgramFinish

(***************************************************************************)
(* The evaluate command on sources with assignments, `or`, `and` and       *)
(* string operands.                                                        *)
(***************************************************************************)
MaxLogicOps == 3   \* operators of a chain of =, or, and, +

MaxPlusOps == 2    \* operators of a chain of + over operands of every type

LogicWords == {"=", "or", "and", "+"}

Atoms == {<<"I">>, <<"N">>}

RECURSIVE LogicChains(_)
LogicChains(k) ==
    IF k = 0 THEN Atoms
    ELSE {c \o <<op>> \o a : c \in LogicChains(k - 1), op \in LogicWords, a \in Atoms}

\* a parenthesised chain, then an operator and an atom
GroupedChains ==
    {<<"(">> \o c \o <<")", op>> \o a :
        c \in LogicChains(0) \cup LogicChains(1), op \in LogicWords, a \in Atoms}

PlusOperands ==
    {<<"N">>, <<"'p'">>, <<"'q'">>, <<"nil">>, <<"true">>, <<"I">>, <<"-", "'p'">>}

RECURSIVE PlusChains(_)
PlusChains(k) ==
    IF k = 0 THEN PlusOperands
    ELSE {c \o <<"+">> \o o : c \in PlusChains(k - 1), o \in PlusOperands}

MaxLogicWords == 3 \* words of a source made of arbitrary words

LogicAlphabet == {"I", "N", "=", "or", "and", "(", ")", "@"}

OperatorSeqs ==
    (UNION {LogicChains(k) : k \in 0..MaxLogicOps})
        \cup (UNION {[1..n -> LogicAlphabet] : n \in 0..MaxLogicWords})
        \cup GroupedChains
        \cup (UNION {PlusChains(k) : k \in 1..MaxPlusOps})

OperatorsInit ==
    /\ \E ws \in OperatorSeqs : lexer = LexerNew(SourceOf(ws))
    /\ parser = ParserNew(<<>>)
    /\ parse_result = POk(NoExpr, ParserNew(<<>>))
    /\ statements = <<>>
    /\ cmdpc = "lex"
    /\ environment = EnvironmentNew
    /\ stdout = <<>>
    /\ run_stderr = <<>>
    /\ exit_code = 0

(***************************************************************************)
(* The tree of a sequence of tokens made of atoms, parentheses, `=`, `or`, *)
(* `and` and `+`, built without the parser: split at the leftmost `=`      *)
(* outside the parentheses, else at the rightmost `or`, else at the        *)
(* rightmost `and`, else at the rightmost `+`.                             *)
(***************************************************************************)
TopPositions(ts, types) ==
    {i \in 1..Len(ts) : ts[i].token_type \in types /\ ParenDepth(ts, i) = 0}

Leftmost(S) == CHOOSE i \in S : \A j \in S : i <= j

Rightmost(S) == CHOOSE i \in S : \A j \in S : j <= i

InvalidTarget(left, value) == [node |-> "Invalid", left |-> left, value |-> value]

RECURSIVE AssignTree(_)
AssignSplit(ts, i, value) ==
    IF i = 2 /\ ts[1].token_type = "IDENTIFIER"
    THEN Assignment(ts[1], value)
    ELSE InvalidTarget(AssignTree(SubSeq(ts, 1, i - 1)), value)

LogicalSplit(ts, r) ==
    Logical(AssignTree(SubSeq(ts, 1, r - 1)), ts[r],
            AssignTree(SubSeq(ts, r + 1, Len(ts))))

AssignTree(ts) ==
    IF ts = <<>> THEN Malformed
    ELSE IF TopPositions(ts, {"EQUAL"}) # {}
    THEN AssignSplit(ts, Leftmost(TopPositions(ts, {"EQUAL"})),
                     AssignTree(SubSeq(ts, Leftmost(TopPositions(ts, {"EQUAL"})) + 1,
                                       Len(ts))))
    ELSE IF TopPositions(ts, {"OR"}) # {}
    THEN LogicalSplit(ts, Rightmost(TopPositions(ts, {"OR"})))
    ELSE IF TopPositions(ts, {"AND"}) # {}
    THEN LogicalSplit(ts, Rightmost(TopPositions(ts, {"AND"})))
    ELSE IF TopPositions(ts, {"PLUS"}) # {}
    THEN Binary(AssignTree(SubSeq(ts, 1, Rightmost(TopPositions(ts, {"PLUS"})) - 1)),
                ts[Rightmost(TopPositions(ts, {"PLUS"}))],
                AssignTree(SubSeq(ts, Rightmost(TopPositions(ts, {"PLUS"})) + 1,
                                  Len(ts))))
    ELSE IF ts[1].token_type = "LEFT_PAREN" /\ ts[Len(ts)].token_type = "RIGHT_PAREN"
    THEN Grouping(AssignTree(SubSeq(ts, 2, Len(ts) - 1)))
    ELSE IF Len(ts) = 1 /\ ts[1].token_type = "NUMBER"
    THEN Literal(Number(IntNum(DigitsVal(ts[1].lexeme))))
    ELSE IF Len(ts) = 1 /\ ts[1].token_type = "IDENTIFIER"
    THEN Variable(ts[1])
    ELSE Malformed

\* the number of nodes of one kind in a tree
RECURSIVE CountNodes(_, _)
CountNodes(e, kind) ==
    (IF e.node = kind THEN 1 ELSE 0)
        + CASE e.node \in {"Binary", "Logical"} ->
                   CountNodes(e.left, kind) + CountNodes(e.right, kind)
            [] e.node = "Invalid" ->
                   CountNodes(e.left, kind) + CountNodes(e.value, kind)
            [] e.node = "Unary" -> CountNodes(e.right, kind)
            [] e.node = "Grouping" -> CountNodes(e.inner, kind)
            [] e.node = "Assignment" -> CountNodes(e.value, kind)
            [] OTHER -> 0

AssignmentParsed == cmdpc \in {"evaluate", "exited"} /\ ~lexer.had_error

InvalidTargetSources ==
    {SourceOf(ws) : ws \in {<<"N", "=", "I">>, <<"(", "I", ")", "=", "I">>,
                            <<"I", "+", "I", "=", "I">>, <<"I", "or", "I", "=", "I">>,
                            <<"I", "and", "I", "=", "I">>}}

\* C12: assignment is right-associative and its left side must be a
\* Variable: whenever the tokens are an expression of atoms, parentheses,
\* =, or, and, +, parse returns the tree that splits at the leftmost `=`
\* if every `=` has a lone identifier on its left, and otherwise fails with
\* "Invalid assignment target." and returns no node; `a = b = c` parses to
\* (= a (= b c)); a literal, a Grouping `(a)`, a Binary `a + b` and a Logical
\* on the left of `=` are rejected.
C12_AssignmentRightAssociative ==
    /\ AssignmentParsed
        => LET tree == AssignTree(ParsedTokens)
           IN  CountNodes(tree, "Malformed") = 0
                  => IF CountNodes(tree, "Invalid") = 0
                     THEN parse_result.ok /\ parse_result.expr = tree
                     ELSE /\ ~parse_result.ok
                          /\ parse_result.expr = NoExpr
                          /\ parse_result.error.message = "Invalid assignment target."
                          /\ exit_code = 65
                          /\ stdout = <<>>
    /\ AssignmentParsed /\ lexer.source = SourceOf(<<"I", "=", "I", "=", "I">>)
        => /\ parse_result.ok
           /\ parse_result.expr.node = "Assignment"
           /\ parse_result.expr.name.lexeme = <<"a">>
           /\ parse_result.expr.value.node = "Assignment"
           /\ parse_result.expr.value.name.lexeme = <<"b">>
           /\ parse_result.expr.value.value.node = "Variable"
           /\ parse_result.expr.value.value.name.lexeme = <<"c">>
    /\ AssignmentParsed /\ lexer.source \in InvalidTargetSources
        => /\ ~parse_result.ok
           /\ parse_result.expr = NoExpr
           /\ parse_result.error.message = "Invalid assignment target."

\* `a = b = c` was parsed to an assignment whose value is an assignment
C12_Witness ==
    /\ AssignmentParsed
    /\ lexer.source = SourceOf(<<"I", "=", "I", "=", "I">>)
    /\ parse_result.ok
    /\ parse_result.expr.node = "Assignment"
    /\ parse_result.expr.value.node = "Assignment"

(***************************************************************************)
(* The token types of a tree read from left to right: what the parser      *)
(* consumed to build it, if it dropped nothing.                            *)
(***************************************************************************)
RECURSIVE Flatten(_)
Flatten(e) ==
    CASE e.node \in {"Binary", "Logical"} ->
             Flatten(e.left) \o <<e.operator.token_type>> \o Flatten(e.right)
      [] e.node = "Unary" -> <<e.operator.token_type>> \o Flatten(e.right)
      [] e.node = "Grouping" -> <<"LEFT_PAREN">> \o Flatten(e.inner) \o <<"RIGHT_PAREN">>
      [] e.node = "Assignment" -> <<"IDENTIFIER", "EQUAL">> \o Flatten(e.value)
      [] e.node = "Variable" -> <<"IDENTIFIER">>
      [] e.node = "Literal" ->
             <<CASE e.value.t = "Number" -> "NUMBER"
                 [] e.value.t = "String" -> "STRING"
                 [] e.value.t = "Nil" -> "NIL"
                 [] OTHER -> IF e.value = Boolean(TRUE) THEN "TRUE" ELSE "FALSE">>
      [] OTHER -> <<>>

ConsumedTypes(P) == [i \in 1..P.current |-> P.tokens[i].token_type]

IsLogical(e, type) == e.node = "Logical" /\ e.operator.token_type = type

\* every Logical node of the tree has the shape the grammar gives it: the
\* right operand of `or` is no `or`, the operands of `and` are no `or` and
\* its right operand is no `and`
RECURSIVE LeftNested(_)
LeftNested(e) ==
    CASE e.node = "Logical" ->
             /\ ~IsLogical(e.right, "OR")
             /\ e.operator.token_type = "AND"
                    => ~IsLogical(e.left, "OR") /\ ~IsLogical(e.right, "AND")
             /\ LeftNested(e.left) /\ LeftNested(e.right)
      [] e.node = "Binary" ->
             /\ e.left.node # "Logical" /\ e.right.node # "Logical"
             /\ LeftNested(e.left) /\ LeftNested(e.right)
      [] e.node = "Unary" -> LeftNested(e.right)
      [] e.node = "Grouping" -> LeftNested(e.inner)
      [] e.node = "Assignment" -> LeftNested(e.value)
      [] OTHER -> TRUE

LogicalTypes(types) == SelectSeq(types, LAMBDA t : t \in {"OR", "AND"})

\* C16: every `or` and `and` the parser consumes becomes a Logical node
\* that keeps both operands: the tree read from left to right gives back
\* exactly the tokens consumed (no operand is parsed and dropped, by
\* Parser::assignment or otherwise), it has one Logical node per `or`/`and`
\* token, chains nest to the left and `and` binds tighter than `or`:
\* `a or b or c` is (or (or a b) c), `a or b and c` is (or a (and b c)).
C16_LogicalKeepsOperands ==
    /\ AssignmentParsed /\ parse_result.ok
        => /\ Flatten(parse_result.expr) = ConsumedTypes(parse_result.P)
           /\ CountNodes(parse_result.expr, "Logical")
                  = Len(LogicalTypes(ConsumedTypes(parse_result.P)))
           /\ LeftNested(parse_result.expr)
    /\ AssignmentParsed /\ lexer.source = SourceOf(<<"I", "or", "I", "or", "I">>)
        => /\ parse_result.ok
           /\ IsLogical(parse_result.expr, "OR")
           /\ IsLogical(parse_result.expr.left, "OR")
           /\ parse_result.expr.left.left.name.lexeme = <<"a">>
           /\ parse_result.expr.left.right.name.lexeme = <<"b">>
           /\ parse_result.expr.right.name.lexeme = <<"c">>
    /\ AssignmentParsed /\ lexer.source = SourceOf(<<"I", "or", "I", "and", "I">>)
        => /\ parse_result.ok
           /\ IsLogical(parse_result.expr, "OR")
           /\ parse_result.expr.left.name.lexeme = <<"a">>
           /\ IsLogical(parse_result.expr.right, "AND")
           /\ parse_result.expr.right.left.name.lexeme = <<"b">>
           /\ parse_result.expr.right.right.name.lexeme = <<"c">>
    /\ AssignmentParsed /\ lexer.source = SourceOf(<<"I", "and", "I", "or", "I">>)
        => /\ parse_result.ok
           /\ IsLogical(parse_result.expr, "OR")
           /\ IsLogical(parse_result.expr.left, "AND")
           /\ parse_result.expr.right.name.lexeme = <<"c">>

\* `a or b or c` was parsed to a Logical node whose left operand is one
C16_Witness ==
    /\ AssignmentParsed
    /\ lexer.source = SourceOf(<<"I", "or", "I", "or", "I">>)
    /\ parse_result.ok
    /\ IsLogical(parse_result.expr, "OR")
    /\ IsLogical(parse_result.expr.left, "OR")
    /\ parse_result.P.current = 5

(***************************************************************************)
(* What a chain of `+` over literals, identifiers (never defined) and      *)
(* negated strings must yield, computed from the tokens without the        *)
(* interpreter: operands from left to right, the first failing operand     *)
(* wins, the types are looked at only when both operands have a value.     *)
(***************************************************************************)
Yields(v) == [kind |-> "value", value |-> v, error |-> NoError]

Fails(line, message) ==
    [kind |-> "error", value |-> Nil, error |-> RuntimeError(line, message)]

NoChain == [kind |-> "none", value |-> Nil, error |-> NoError]

PlusOperand(ts) ==
    IF Len(ts) = 1
    THEN CASE ts[1].token_type = "NUMBER" -> Yields(Number(ParseF64(ts[1].literal).n))
           [] ts[1].token_type = "STRING" -> Yields(StringV(ts[1].literal))
           [] ts[1].token_type = "NIL" -> Yields(Nil)
           [] ts[1].token_type = "TRUE" -> Yields(Boolean(TRUE))
           [] ts[1].token_type = "IDENTIFIER" ->
                  Fails(ts[1].line, "Undefined variable '" \o Str(ts[1].lexeme) \o "'")
           [] OTHER -> NoChain
    ELSE IF Len(ts) = 2 /\ ts[1].token_type = "MINUS" /\ ts[2].token_type = "STRING"
    THEN Fails(ts[1].line, "Operand must be a number.")
    ELSE NoChain

PlusOf(l, r, operator) ==
    IF l.kind = "none" \/ r.kind = "none" THEN NoChain
    ELSE IF l.kind = "error" THEN l
    ELSE IF r.kind = "error" THEN r
    ELSE IF l.value.t = "Number" /\ r.value.t = "Number"
    THEN Yields(Number(NumAdd(l.value.n, r.value.n)))
    ELSE IF l.value.t = "String" /\ r.value.t = "String"
    THEN Yields(StringV(l.value.s \o r.value.s))
    ELSE Fails(operator.line, "Operands must be two numbers or two strings.")

RECURSIVE PlusOutcome(_)
PlusOutcome(ts) ==
    IF TopPositions(ts, {"PLUS"}) # {}
    THEN PlusOf(PlusOutcome(SubSeq(ts, 1, Rightmost(TopPositions(ts, {"PLUS"})) - 1)),
                PlusOperand(SubSeq(ts, Rightmost(TopPositions(ts, {"PLUS"})) + 1,
                                   Len(ts))),
                ts[Rightmost(TopPositions(ts, {"PLUS"}))])
    ELSE PlusOperand(ts)

Evaluated == cmdpc = "exited" /\ ~lexer.had_error /\ parse_result.ok

PlusSource(ws) == lexer.source = SourceOf(ws)

\* C17: binary `+`: two Numbers give their sum, two Strings the left one
\* followed by the right one, every other pair of values the RuntimeError
\* "Operands must be two numbers or two strings." at the operator's line;
\* the left operand is evaluated before the right one and both before the
\* types are looked at, so a failing operand's own error is the one
\* reported, the left one first.
C17_PlusSumsOrConcatenates ==
    /\ Evaluated /\ (\E i \in 1..Len(ParsedTokens) : ParsedTokens[i].token_type = "PLUS")
        => LET o == PlusOutcome(ParsedTokens)
           IN  /\ o.kind = "value"
                    => stdout = <<as_string(o.value)>> /\ exit_code = 0
               /\ o.kind = "error"
                    => /\ stdout = <<>>
                       /\ exit_code = 70
                       /\ run_stderr = <<o.error>>
    /\ Evaluated /\ PlusSource(<<"N", "+", "N">>) => stdout = <<<<"3">>>>
    /\ Evaluated /\ PlusSource(<<"'p'", "+", "'q'">>) => stdout = <<<<"p", "q">>>>
    /\ Evaluated /\ PlusSource(<<"'q'", "+", "'p'">>) => stdout = <<<<"q", "p">>>>
    /\ Evaluated /\ (\/ PlusSource(<<"N", "+", "'p'">>)
                     \/ PlusSource(<<"'p'", "+", "N">>)
                     \/ PlusSource(<<"nil", "+", "nil">>)
                     \/ PlusSource(<<"true", "+", "N">>)
                     \/ PlusSource(<<"'p'", "+", "nil">>))
        => run_stderr
               = <<RuntimeError(1, "Operands must be two numbers or two strings.")>>
    /\ Evaluated /\ PlusSource(<<"nil", "+", "I">>)
        => run_stderr = <<RuntimeError(1, "Undefined variable 'a'")>>
    /\ Evaluated /\ PlusSource(<<"I", "+", "-", "'p'">>)
        => run_stderr = <<RuntimeError(1, "Undefined variable 'a'")>>
    /\ Evaluated /\ PlusSource(<<"-", "'p'", "+", "I">>)
        => run_stderr = <<RuntimeError(1, "Operand must be a number.")>>

\* `"p" + "q"` was evaluated and pq was printed
C17_Witness ==
    /\ Evaluated
    /\ PlusSource(<<"'p'", "+", "'q'">>)
    /\ stdout = <<<<"p", "q">>>>
    /\ exit_code = 0

(***************************************************************************)
(* Dangling else.  The shape of a parsed statement, and the shape a chain  *)
(* of n ifs followed by one print and m elses must have when every else    *)
(* belongs to the nearest if that has none: the k-th else of the text      *)
(* belongs to the k-th if counted from the innermost.                      *)
(***************************************************************************)
ConditionWord(e) ==
    CASE e.node = "Literal" -> IF e.value = Boolean(TRUE) THEN "true" ELSE "false"
      [] e.node = "Variable" -> "I"
      [] OTHER -> "?"

PrintShape(n) == [k |-> "print", n |-> n]

RECURSIVE StatementShape(_)
StatementShape(s) ==
    CASE s.stmt = "If" ->
            [k |-> "if", cond |-> ConditionWord(s.condition),
             then |-> StatementShape(s.then_branch),
             else |-> StatementShape(s.else_branch)]
      [] s.stmt = "Print" /\ s.expr.node = "Literal" /\ s.expr.value.t = "Number" ->
            PrintShape(s.expr.value.n.p)
      [] s.stmt = "None" -> [k |-> "none"]
      [] OTHER -> [k |-> "other"]

\* the if number j (1 is the outermost) of a chain: the print after the
\* ifs holds the number 1, the k-th else holds the number k + 1
RECURSIVE NearestIfShape(_, _, _)
NearestIfShape(conds, m, j) ==
    LET n == Len(conds)
    IN  [k |-> "if", cond |-> conds[j],
         then |-> IF j = n THEN PrintShape(1) ELSE NearestIfShape(conds, m, j + 1),
         else |-> IF n - j + 1 <= m THEN PrintShape(n - j + 2) ELSE [k |-> "none"]]

IfChainCases ==
    {[source |-> SourceOf(IfChainText(c.conds, c.elses)),
      shape |-> NearestIfShape(c.conds, c.elses, 1)] :
        c \in {d \in IfChains : d.elses <= Len(d.conds)}}

ProgramParsed == cmdpc \in {"run", "exited"} /\ ~lexer.had_error

\* C11: an else belongs to the nearest preceding if that has no else yet:
\* a chain of n nested ifs without braces followed by m <= n elses parses
\* to one statement in which the k-th else is the else-branch of the k-th
\* if counted from the innermost and the other ifs have none; so
\* `if (a) if (b) print 1; else print 2;` is an outer If without else
\* whose then-branch is the inner If that carries the else.
C11_ElseBindsNearestIf ==
    /\ \A c \in IfChainCases :
          ProgramParsed /\ lexer.source = c.source
              => /\ parse_result.ok
                 /\ Len(parse_result.statements) = 1
                 /\ StatementShape(parse_result.statements[1]) = c.shape
    /\ ProgramParsed
        /\ lexer.source = SourceOf(IfChainText(<<"I", "I">>, 1))
        => /\ parse_result.ok
           /\ parse_result.statements[1].stmt = "If"
           /\ parse_result.statements[1].else_branch = NoStatement
           /\ parse_result.statements[1].then_branch.stmt = "If"
           /\ parse_result.statements[1].then_branch.else_branch.stmt = "Print"
           /\ parse_result.statements[1].then_branch.then_branch.stmt = "Print"

\* `if (a) if (b) print 1; else print 2;` was parsed
C11_Witness ==
    /\ ProgramParsed
    /\ lexer.source = SourceOf(IfChainText(<<"I", "I">>, 1))
    /\ parse_result.ok
    /\ parse_result.statements[1].then_branch.else_branch
           = PrintStmt(Literal(Number(IntNum(2))))

OperatorTypes ==
    {"MINUS", "PLUS", "SLASH", "STAR", "BANG", "BANG_EQUAL", "EQUAL_EQUAL",
     "GREATER", "GREATER_EQUAL", "LESS", "LESS_EQUAL"}

\* the run command stopped on a runtime error
RunFailed == cmdpc = "exited" /\ exit_code = 70 /\ run_stderr # <<>>

ReportedError == run_stderr[Len(run_stderr)]

\* C13: a RuntimeError carries the line of the failing node's token: its
\* line is a positive integer, an "Undefined variable '<name>'" error (from
\* a read or from an assignment) carries the line of a token of that name,
\* every other error the line of an operator token.
C13_RuntimeErrorLine ==
    RunFailed
        => /\ ReportedError.line >= 1
           /\ \E i \in 1..Len(lexer.tokens) :
                 /\ lexer.tokens[i].line = ReportedError.line
                 /\ \/ /\ lexer.tokens[i].token_type = "IDENTIFIER"
                       /\ ReportedError.message
                              = "Undefined variable '" \o Str(lexer.tokens[i].lexeme) \o "'"
                    \/ /\ lexer.tokens[i].token_type \in OperatorTypes
                       /\ ReportedError.message
                              \in {"Operand must be a number.",
                                   "Operands must be numbers.",
                                   "Operands must be two numbers or two strings."}

(***************************************************************************)
(* What a chain of ifs must print: the conditions are tried from the       *)
(* outermost if inwards; a variable (never defined) stops the run with a   *)
(* runtime error, `false` takes the else of that if, if it has one.        *)
(***************************************************************************)
Printed(k) == <<as_string(Number(IntNum(k)))>>

RECURSIVE IfChainOutcome(_, _, _)
IfChainOutcome(conds, m, j) ==
    LET n == Len(conds)
    IN  CASE conds[j] = "I" -> [out |-> <<>>, code |-> 70]
          [] conds[j] = "true" ->
                IF j = n THEN [out |-> Printed(1), code |-> 0]
                ELSE IfChainOutcome(conds, m, j + 1)
          [] OTHER ->
                IF n - j + 1 <= m THEN [out |-> Printed(n - j + 2), code |-> 0]
                ELSE [out |-> <<>>, code |-> 0]

IfChainRuns ==
    {[source |-> SourceOf(IfChainText(c.conds, c.elses)),
      outcome |-> IfChainOutcome(c.conds, c.elses, 1)] :
        c \in {d \in IfChains : d.elses <= Len(d.conds)}}

DeclareX == <<"var", "x", "=", "N", ";", "\n">>

IfAssigns ==
    SourceOf(DeclareX \o <<"if", "(", "x", "=", "x", "+", "N", ")", "print", "x", ";",
                           "else", "print", "N", ";">>)

IfElseAssigns ==
    SourceOf(DeclareX \o <<"if", "(", "x", ")", "print", "N", ";",
                           "else", "x", "=", "N", ";">>)

IfNotX == SourceOf(DeclareX \o <<"if", "(", "!", "x", ")", "{", "print", "N", ";", "}">>)

XIs(k) == [EmptyScope EXCEPT !["x"] = Number(IntNum(k))]

ProgramExited == cmdpc = "exited" /\ ~lexer.had_error /\ parse_result.ok

\* C14: an If evaluates its condition once and then runs exactly one of:
\* the then-branch (condition truthy), the else-branch (falsy, else
\* present), nothing (falsy, no else); the branch not taken changes
\* neither the output nor the environment.
C14_IfRunsOneBranch ==
    /\ \A c \in IfChainRuns :
          ProgramExited /\ lexer.source = c.source
              => /\ stdout = c.outcome.out
                 /\ exit_code = c.outcome.code
                 /\ environment = EnvironmentNew
    /\ ProgramExited /\ lexer.source = IfAssigns
        => stdout = Printed(3) /\ environment = <<XIs(3)>> /\ exit_code = 0
    /\ ProgramExited /\ lexer.source = IfElseAssigns
        => stdout = Printed(2) /\ environment = <<XIs(1)>> /\ exit_code = 0
    /\ ProgramExited /\ lexer.source = IfNotX
        => stdout = <<>> /\ environment = <<XIs(1)>> /\ exit_code = 0

\* `if (false) if (true) print 1; else print 2; else print 3;` has run and
\* printed 3 only
C14_Witness ==
    /\ ProgramExited
    /\ lexer.source = SourceOf(IfChainText(<<"false", "true">>, 2))
    /\ stdout = Printed(3)
    /\ exit_code = 0

(***************************************************************************)
(* Parse errors.  The token a ParseError names, found again among the      *)
(* tokens by its location text and its line.                               *)
(***************************************************************************)
ParseFailed == cmdpc = "exited" /\ ~lexer.had_error /\ ~parse_result.ok

LocationOf(token) ==
    IF token.token_type = "EOF" THEN "at end"
    ELSE "at '" \o Str(token.lexeme) \o "'"

Names_(error, token) ==
    /\ error.location = LocationOf(token)
    /\ error.line = token.line

\* the token at position i is the one that does not fit: for a rejected
\* assignment target the `=` or a token of the target before it, for every
\* other error the first token the parser could not consume
Offending(error, P, i) ==
    IF error.message = "Invalid assignment target."
    THEN \E j \in i..Len(P.tokens) : P.tokens[j].token_type = "EQUAL"
    ELSE i = P.current + 1

\* C15: every ParseError names the offending token: its location is
\* "at end" exactly when that token is EOF and "at '<lexeme>'" otherwise,
\* and its line is that token's line, for every error, "Invalid assignment
\* target." included.
C15_ParseErrorNamesOffendingToken ==
    ParseFailed
        => \E i \in 1..Len(parser.tokens) :
              /\ Offending(parse_result.error, parser, i)
              /\ Names_(parse_result.error, parser.tokens[i])

(***************************************************************************)
(* The programs with a statement the lexer or the parser rejects.          *)
(***************************************************************************)
FaultyTexts == {<<"print", "N">>, <<"{", "print", "N", ";">>, <<"print", "@", ";">>}

RECURSIVE Contains(_, _)
Contains(ws, t) ==
    /\ Len(ws) >= Len(t)
    /\ \/ SubSeq(ws, 1, Len(t)) = t
             /\ (Len(ws) = Len(t) \/ ws[Len(t) + 1] = "\n")
       \/ \E i \in 1..Len(ws) :
             /\ ws[i] = "\n"
             /\ \A j \in 1..(i - 1) : ws[j] # "\n"
             /\ Contains(SubSeq(ws, i + 1, Len(ws)), t)

FaultySources ==
    {SourceOf(p) : p \in {q \in UNION {ProgramTexts(k) : k \in 1..MaxProgStmts} :
                              \E t \in FaultyTexts : Contains(q, t)}}

LastStatementFaulty == SourceOf(<<"print", "N", ";", "\n", "print", "N">>)

FrontEndOk == ~lexer.had_error /\ parse_result.ok

\* C18: the run command executes nothing unless the whole source lexed and
\* parsed: a lexer error or a ParseError for any statement, the last one
\* included, leaves the output empty and the environment untouched and
\* ends with exit code 65; every step that prints, changes the environment
\* or reports a runtime error (exit code 70) is taken after lexing and
\* parsing both succeeded.
C18_NothingRunsAfterFrontEndError ==
    /\ [](/\ ~FrontEndOk => stdout = <<>> /\ environment = EnvironmentNew
                                /\ exit_code = 65 /\ cmdpc = "exited"
          /\ lexer.source \in FaultySources
                => stdout = <<>> /\ environment = EnvironmentNew
                       /\ exit_code # 70 /\ cmdpc # "run"
                       /\ (cmdpc = "exited" => exit_code = 65)
          /\ exit_code = 70 => FrontEndOk /\ lexer.tokens # <<>>
                                   /\ parser_is_at_end(parse_result.P))
    /\ [][stdout' # stdout \/ environment' # environment \/ exit_code' = 70
             => cmdpc = "run" /\ FrontEndOk /\ parser_is_at_end(parse_result.P)]_vars

\* `print 1;` followed by `print 2` without its semicolon: the parse
\* failed on the last statement and nothing was printed
C18_Witness ==
    /\ cmdpc = "exited"
    /\ lexer.source = LastStatementFaulty
    /\ ~parse_result.ok
    /\ exit_code = 65
    /\ stdout = <<>>

EofTokens(tokens) == SelectSeq(tokens, LAMBDA t : t.token_type = "EOF")

\* C19: Lexer::scan_tokens terminates on every finite source: every call
\* of scan_token moves `current` forward by at least one and never beyond
\* the length of the source (also in a `//` comment or a string that runs
\* to the end of the input), so the loop ends, with `current` equal to the
\* length of the source, and then the one EOF token is appended.
C19_ScanTokensTerminates ==
    /\ [][lexpc = "scan" /\ ~is_at_end(lexer)
             => /\ lexer'.current > lexer.current
                /\ lexer'.current <= Len(lexer.source)
                /\ lexer'.source = lexer.source
                /\ lexpc' = "scan"]_vars
    /\ [](lexpc = "done"
             => /\ lexer.current = Len(lexer.source)
                /\ lexer.tokens # <<>>
                /\ lexer.tokens[Len(lexer.tokens)].token_type = "EOF"
                /\ Len(EofTokens(lexer.tokens)) = 1)
    /\ [](lexer.current <= Len(lexer.source))
    /\ <>(lexpc = "done")

\* a string left open and a comment, both running to the end of the input,
\* were scanned to the end
C19_Witness ==
    /\ lexpc = "done"
    /\ lexer.source \in {<<"\"", "o", "\n">>, <<"/", "/", "o">>}
    /\ lexer.current = 3

(***************************************************************************)
(* The specifications: the lexer alone, and the `run` command's statement  *)
(* loop alone; the part not under study stays idle.                        *)
(***************************************************************************)
LexIdle == lexer = LexerNew(<<>>) /\ lexpc = "idle"

RunIdle ==
    /\ environment = EnvironmentNew
    /\ stdout = <<>>
    /\ run_stderr = <<>>
    /\ frames = <<>>
    /\ result = ResultOk
    /\ statement = NoStatement
    /\ budget = 0
    /\ exit_code = 0
    /\ runpc = "idle"

ParseIdle ==
    /\ parser = ParserNew(<<>>)
    /\ parse_result = POk(NoExpr, ParserNew(<<>>))
    /\ statements = <<>>
    /\ cmdpc = "idle"

InitLex == LexInit /\ RunIdle /\ ParseIdle

SpecLex == InitLex /\ [][LexNext]_vars

MaxFairLen == 3    \* characters of a source of the fair specification

FairAlphabet == {"\"", "/", "\n", "o", "@", "1", "."}

FairSources == UNION {[1..n -> FairAlphabet] : n \in 0..MaxFairLen}

InitLexFair ==
    /\ \E source \in FairSources : lexer = LexerNew(source)
    /\ lexpc = "scan"
    /\ RunIdle
    /\ ParseIdle

\* the Lexer before each turn of the loop of scan_tokens and after eof_token
RECURSIVE ScanTrace(_)
ScanTrace(L) ==
    IF is_at_end(L) THEN <<L, eof_token(L)>>
    ELSE <<L>> \o ScanTrace(scan_token([L EXCEPT !.start = L.current]))

\* the steps of LexNext on each source, tabulated: the Lexer before the
\* step, the Lexer after it, and lexpc after it
ScanSteps ==
    UNION {{<<t[i], t[i + 1], IF i + 1 = Len(t) THEN "done" ELSE "scan">> :
                i \in 1..(Len(t) - 1)} :
              t \in {ScanTrace(LexerNew(source)) : source \in FairSources}}

ScanNext ==
    /\ lexpc = "scan"
    /\ \E step \in ScanSteps :
          /\ step[1] = lexer
          /\ lexer' = step[2]
          /\ lexpc' = step[3]
    /\ UNCHANGED <<runvars, parsevars>>

\* scan_tokens is a loop of one thread: while it can take a step it does
SpecLexFair == InitLexFair /\ [][LexNext]_vars /\ WF_vars(ScanNext)

InitRun == RunInit /\ LexIdle /\ ParseIdle

SpecRun == InitRun /\ [][RunNext]_vars

InitEvaluate ==
    /\ EvaluateInit
    /\ lexpc = "idle"
    /\ frames = <<>>
    /\ result = ResultOk
    /\ statement = NoStatement
    /\ budget = 0
    /\ runpc = "idle"

SpecEvaluate == InitEvaluate /\ [][EvaluateNext]_vars

InitProgram ==
    /\ ProgramInit
    /\ lexpc = "idle"
    /\ frames = <<>>
    /\ result = ResultOk
    /\ statement = NoStatement
    /\ budget = 0
    /\ runpc = "idle"

SpecProgram == InitProgram /\ [][ProgramNext]_vars

InitOperators ==
    /\ OperatorsInit
    /\ lexpc = "idle"
    /\ frames = <<>>
    /\ result = ResultOk
    /\ statement = NoStatement
    /\ budget = 0
    /\ runpc = "idle"

SpecOperators == InitOperators /\ [][EvaluateNext]_vars

=============================================================================
